---- MODULE Spec2Model ----
(***************************************************************************)
(* A model of rustgbot's NGA markup engine (processor/nga/src/bbcode.rs,   *)
(* page.rs, utils.rs) and of the caption truncator (common/src/lib.rs).    *)
(*                                                                         *)
(* Text is modelled as TLA+ strings, one character per codepoint.          *)
(* Positions are 0-based, as in the Rust source: At(s, i) is chars[i] and  *)
(* Slice(s, a, b) is chars[a..b].  Non-ASCII literals of the source are    *)
(* written with one ASCII stand-in per codepoint (see ELLIPSIS, and the    *)
(* td/dice entries of TAG_REGISTRY).                                       *)
(***************************************************************************)
EXTENDS Integers, Sequences, FiniteSets, TLC

VARIABLES
    chars,      \* BBCodeParser.chars: the parser's input
    pos,        \* BBCodeParser.pos: the cursor
    result,     \* the `result` String of BBCodeParser::parse
    panicked,   \* TRUE once a slice or index of the parser was out of range
    subs,       \* inputs handed to recursive sub-parsers by the last iteration
    body,       \* ContentCleaner::clean: the raw post content
    decoded,    \* clean: `decoded`
    escaped,    \* clean: `escaped`
    parsed,     \* clean: `parsed`
    cleaned,    \* clean: the returned string
    stage,      \* clean: the statement reached
    desc,            \* substring_desc_with_truncation: the text to truncate
    should_truncate, \* substring_desc_with_truncation: the flag
    summary,         \* the text returned for desc
    again,           \* the text returned when summary is truncated once more
    applied,         \* how many times the truncation has been applied
    resp,             \* send_bot_responses: the kind of BotResponse in hand
    builder,          \* the MessageSenderBuilder
    urlsArg,          \* the list last passed to the builder's urls()
    built,            \* how many optional builder calls were made
    sendPc,           \* where the send of the response stands
    calls,            \* the network calls awaited so far, with their outcomes
    downloaded_files, \* the URLs whose bytes were downloaded
    send_result,      \* send_result of send_bot_responses: "ok" or "err"
    chat,             \* the messages the chat has received
    fetched,          \* the URLs download_file was called with, in order
    in_flight,        \* the items whose download is awaited
    content_type,     \* the content type download_file returned, "" before
    TRUNCATION_ENABLED, \* the thread_local cell of each worker thread
    hThread,          \* the worker thread each handler runs on
    hPc,              \* where each handler stands
    hCaption,         \* the caption each handler produced, << >> before
    handled,          \* how many further messages each handler took
    lock,             \* the holder of each cache's mutex, 0 when free
    B23_CACHE,        \* the entries of B23_CACHE: <<short URL, target>>
    token_valid,      \* TOKEN_CACHE holds a token that is valid
    cPc,              \* where each caller of a cache stands
    cCalls,           \* how many cache functions were called
    short_url,        \* get_b23_redirect: the argument of each caller's call
    clean_url,        \* get_b23_redirect: the target each caller was answered
    cStart,           \* how many calls had returned Ok when the call began
    b23_returned,     \* the calls of get_b23_redirect that returned Ok
    attempt,          \* get_access_token_with_retry: the attempt of each caller
    refreshes,        \* the refresh requests each caller's call has issued
    raw_content,      \* NGAPage::from_html: the inner HTML of the post
    page_title,       \* NGAPage.title
    images,           \* NGAPage.images
    page_content,     \* NGAPage.content
    page_summary,     \* the text to_summary returned
    pagePc,           \* where from_html and to_summary stand
    responses,        \* send_bot_responses: the list it was called with
    taken,            \* how many responses the for loop has taken
    attempts,         \* the sends awaited so far, with their outcomes
    loopPc            \* where send_bot_responses stands

parserVars == <<chars, pos, result, panicked, subs>>

cleanVars == <<body, decoded, escaped, parsed, cleaned, stage>>

truncVars == <<desc, should_truncate, summary, again, applied>>

sendVars ==
    <<resp, builder, urlsArg, built, sendPc, calls, downloaded_files,
      send_result, chat, fetched, in_flight, content_type>>

fullVars == <<TRUNCATION_ENABLED, hThread, hPc, hCaption, handled>>

b23Vars == <<B23_CACHE, short_url, clean_url, cStart, b23_returned>>

retryVars == <<attempt, refreshes>>

cacheVars == <<lock, b23Vars, token_valid, cPc, cCalls, retryVars>>

pageVars ==
    <<raw_content, page_title, images, page_content, page_summary, pagePc>>

loopVars == <<responses, taken, attempts, loopPc>>

vars ==
    <<parserVars, cleanVars, truncVars, sendVars, fullVars, cacheVars,
      pageVars, loopVars>>

----------------------------------------------------------------------------
(* Characters and strings                                                  *)

At(s, i) == SubSeq(s, i + 1, i + 1)

Slice(s, a, b) == SubSeq(s, a + 1, b)

UpperAlpha == "ABCDEFGHIJKLMNOPQRSTUVWXYZ"

LowerAlpha == "abcdefghijklmnopqrstuvwxyz"

\* char::to_ascii_lowercase / the ASCII part of str::to_lowercase
LowerChar(c) ==
    IF \E i \in 0..(Len(UpperAlpha) - 1) : At(UpperAlpha, i) = c
    THEN At(LowerAlpha, CHOOSE i \in 0..(Len(UpperAlpha) - 1) : At(UpperAlpha, i) = c)
    ELSE c

RECURSIVE ToLowercase(_)
ToLowercase(s) ==
    IF s = "" THEN "" ELSE LowerChar(Head(s)) \o ToLowercase(Tail(s))

EqIgnoreAsciiCase(a, b) == ToLowercase(a) = ToLowercase(b)

StartsWith(s, p) == Len(s) >= Len(p) /\ SubSeq(s, 1, Len(p)) = p

EndsWith(s, p) == Len(s) >= Len(p) /\ Slice(s, Len(s) - Len(p), Len(s)) = p

StripPrefix(s, p) == SubSeq(s, Len(p) + 1, Len(s))

\* (a..b).find(|i| chars[i] == c): the first index in [from, Len) holding c, or -1
Min(S) == CHOOSE m \in S : \A x \in S : m <= x

MinOrNone(S) == IF S = {} THEN -1 ELSE Min(S)

FindChar(s, c, from) == MinOrNone({i \in from..(Len(s) - 1) : At(s, i) = c})

\* str::contains
Contains(s, p) ==
    \E i \in 0..(Len(s) - Len(p)) : Slice(s, i, i + Len(p)) = p

IsSpace(c) == c \in {" ", "\n", "\t"}

RECURSIVE TrimStart(_)
TrimStart(s) ==
    IF s # "" /\ IsSpace(Head(s)) THEN TrimStart(Tail(s)) ELSE s

RECURSIVE TrimEnd(_)
TrimEnd(s) ==
    IF s # "" /\ IsSpace(At(s, Len(s) - 1))
    THEN TrimEnd(Slice(s, 0, Len(s) - 1)) ELSE s

\* str::trim
Trim(s) == TrimEnd(TrimStart(s))

----------------------------------------------------------------------------
(* TAG_REGISTRY, ParamTag, BBCodeTag                                       *)

TagDef(name, open, close, remove) ==
    [name |-> name, html_open |-> open, html_close |-> close,
     remove_content |-> remove]

\* " | " stands for the box-drawing separator of td, "* " for the dice emoji
TAG_REGISTRY ==
    << TagDef("b", "<b>", "</b>", FALSE),
       TagDef("i", "<i>", "</i>", FALSE),
       TagDef("u", "<u>", "</u>", FALSE),
       TagDef("s", "<s>", "</s>", FALSE),
       TagDef("del", "<del>", "</del>", FALSE),
       TagDef("quote", "<blockquote>", "</blockquote>", FALSE),
       TagDef("img", "", "", TRUE),
       TagDef("flash", "", "", FALSE),
       TagDef("table", "\n<pre>", "</pre>", FALSE),
       TagDef("tr", "", "\n", FALSE),
       TagDef("td", "", " | ", FALSE),
       TagDef("pid", "", "", FALSE),
       TagDef("uid", "", "", FALSE),
       TagDef("url", "", "", FALSE),
       TagDef("collapse", "", "", FALSE),
       TagDef("color", "", "", FALSE),
       TagDef("dice", "* ", "", FALSE) >>

\* A BBCodeTag: kind "Simple" carries idx (0-based into TAG_REGISTRY), the
\* ParamTag kinds carry val; kind "None" is Option::None.
Tag(kind, idx, val) == [kind |-> kind, idx |-> idx, val |-> val]

NoTag == Tag("None", 0, "")

ParamTag_base_name(tag) ==
    CASE tag.kind = "Url" -> "url"
      [] tag.kind = "Collapse" -> "collapse"
      [] tag.kind = "TableCell" -> "td"
      [] tag.kind = "Pid" -> "pid"
      [] tag.kind = "Uid" -> "uid"
      [] tag.kind = "Color" -> "color"
      [] tag.kind = "Sticker" -> "s"
      [] tag.kind = "Size" -> "size"

parse_parameterized(tag) ==
    IF StartsWith(tag, "url=") THEN Tag("Url", 0, StripPrefix(tag, "url="))
    ELSE IF StartsWith(tag, "collapse=")
         THEN Tag("Collapse", 0, StripPrefix(tag, "collapse="))
    ELSE IF StartsWith(tag, "td") /\ Len(tag) > 2
         THEN Tag("TableCell", 0, StripPrefix(tag, "td"))
    ELSE IF StartsWith(tag, "pid=") THEN Tag("Pid", 0, StripPrefix(tag, "pid="))
    ELSE IF StartsWith(tag, "uid=") THEN Tag("Uid", 0, StripPrefix(tag, "uid="))
    ELSE IF StartsWith(tag, "color=")
         THEN Tag("Color", 0, StripPrefix(tag, "color="))
    ELSE IF StartsWith(tag, "s:ac:") \/ StartsWith(tag, "s:")
         THEN Tag("Sticker", 0, tag)
    ELSE IF StartsWith(tag, "size=")
         THEN Tag("Size", 0, StripPrefix(tag, "size="))
    ELSE NoTag

\* TAG_REGISTRY.iter().position(|d| d.name == name), 0-based; -1 when absent
registry_index(name) ==
    MinOrNone({idx \in 0..(Len(TAG_REGISTRY) - 1) : TAG_REGISTRY[idx + 1].name = name})

simple_or_parameterized(tag, idx) ==
    IF idx # -1 THEN Tag("Simple", idx, "") ELSE parse_parameterized(tag)

BBCodeTag_parse(tag) ==
    simple_or_parameterized(tag, registry_index(ToLowercase(tag)))

base_name(tag) ==
    IF tag.kind = "Simple" THEN TAG_REGISTRY[tag.idx + 1].name
    ELSE ParamTag_base_name(tag)

\* BBCodeTag::def: the registry entry, or the empty markup of map_or("", ..)
def_at(idx) ==
    IF idx = -1 THEN TagDef("", "", "", FALSE) ELSE TAG_REGISTRY[idx + 1]

def(tag) ==
    IF tag.kind = "Simple" THEN TAG_REGISTRY[tag.idx + 1]
    ELSE def_at(registry_index(ParamTag_base_name(tag)))

\* an opening element named after the tag instead of taken from the registry
to_html_open_named(tag) == "<" \o base_name(tag) \o ">"

to_html_open(tag) == def(tag).html_open

to_html_close(tag) == def(tag).html_close

\* removal decided without the registry's remove_content flag
should_remove_content_sticker_only(tag) == tag.kind = "Sticker"

should_remove_content(tag) ==
    IF tag.kind = "Simple" THEN TAG_REGISTRY[tag.idx + 1].remove_content
    ELSE tag.kind = "Sticker"

\* no tag is taken for self-closing: a closing tag is searched for a sticker
is_self_closing_never(tag) == FALSE

is_self_closing(tag) == tag.kind = "Sticker"

----------------------------------------------------------------------------
(* BBCodeParser: tag scanning                                              *)

\* Some((tag, end + 1)) as [tag, end]; None as [tag |-> NoTag, end |-> 0]
Opened(tag, end) == [tag |-> tag, end |-> end]

NotOpened == Opened(NoTag, 0)

\* BBCodeTag::parse(..).map(|tag| (tag, end + 1))
opened_from(tag, end) == IF tag = NoTag THEN NotOpened ELSE Opened(tag, end + 1)

\* the tag between start and the ']' found at `end` (-1: none found)
opening_tag_to(cs, start, end) ==
    IF end = -1 THEN NotOpened
    ELSE opened_from(BBCodeTag_parse(Slice(cs, start + 1, end)), end)

parse_opening_tag_at(cs, start) ==
    IF start >= Len(cs) \/ At(cs, start) # "[" THEN NotOpened
    ELSE opening_tag_to(cs, start, FindChar(cs, "]", start + 1))

closing_name_matches(cs, p, end, expected) ==
    IF end = -1 THEN FALSE
    ELSE EqIgnoreAsciiCase(Slice(cs, p + 2, end), expected)

is_closing_tag_at(cs, p, expected) ==
    IF p + 2 >= Len(cs) THEN FALSE
    ELSE IF At(cs, p) # "[" \/ At(cs, p + 1) # "/" THEN FALSE
    ELSE closing_name_matches(cs, p, FindChar(cs, "]", p + 2), expected)

same_base_name(o, expected) == o.tag # NoTag /\ base_name(o.tag) = expected

\* openers of the same name between the tag and its closer are not counted
is_same_opening_tag_never(cs, p, expected) == FALSE

is_same_opening_tag_at(cs, p, expected) ==
    same_base_name(parse_opening_tag_at(cs, p), expected)

\* the next index after p that holds a '[', the length for none
next_bracket(cs, p) ==
    IF FindChar(cs, "[", p + 1) = -1 THEN Len(cs) ELSE FindChar(cs, "[", p + 1)

\* the while loop of find_closing_tag from cursor p at nesting depth `depth`;
\* -1 is None; the iterations that only step over a character other than '['
\* are taken as one run
RECURSIVE find_closing_loop(_, _, _, _)
find_closing_loop(cs, p, depth, tag_name) ==
    IF p >= Len(cs) THEN -1
    ELSE IF At(cs, p) = "["
         THEN IF is_closing_tag_at(cs, p, tag_name)
              THEN IF depth - 1 = 0 THEN p
                   ELSE find_closing_loop(cs, p + 1, depth - 1, tag_name)
              ELSE IF is_same_opening_tag_at(cs, p, tag_name)
                   THEN find_closing_loop(cs, p + 1, depth + 1, tag_name)
                   ELSE find_closing_loop(cs, p + 1, depth, tag_name)
         ELSE find_closing_loop(cs, next_bracket(cs, p), depth, tag_name)

\* the first closing tag of the name, openers in between not counted
find_closing_tag_first(cs, p, tag) ==
    MinOrNone({i \in p..(Len(cs) - 1) : is_closing_tag_at(cs, i, base_name(tag))})

find_closing_tag(cs, p, tag) == find_closing_loop(cs, p, 1, base_name(tag))

\* the cursor after skip_closing_tag_at(p)
past_bracket(cs, end) == IF end = -1 THEN Len(cs) ELSE end + 1

skip_closing_tag_at(cs, p) ==
    IF p < Len(cs) /\ At(cs, p) = "[" THEN past_bracket(cs, FindChar(cs, "]", p))
    ELSE p

current_char(cs, p) == IF p < Len(cs) THEN At(cs, p) ELSE "@"

peek_char(cs, p) == IF p + 1 < Len(cs) THEN At(cs, p + 1) ELSE "@"

is_opening_tag(cs, p) == current_char(cs, p) = "[" /\ peek_char(cs, p) # "/"

----------------------------------------------------------------------------
(* BBCodeParser: format_table                                              *)

\* the first index >= from at which p occurs in s, or -1
FindStr(s, p, from) ==
    MinOrNone({i \in from..(Len(s) - Len(p)) : Slice(s, i, i + Len(p)) = p})

\* tr_pattern.find_iter(content) for (?s)\[tr\](.*?)\[/tr\]: the leftmost,
\* shortest, non-overlapping matches from `from` on, as whole-match strings
RECURSIVE tr_matches(_, _)
tr_match_between(content, i, j) ==
    IF i = -1 \/ j = -1 THEN << >>
    ELSE << Slice(content, i, j + 5) >> \o tr_matches(content, j + 5)

tr_match_from(content, i) ==
    IF i = -1 THEN << >>
    ELSE tr_match_between(content, i, FindStr(content, "[/tr]", i + 4))

tr_matches(content, from) == tr_match_from(content, FindStr(content, "[tr]", from))

\* td_pattern.captures_iter(row) for (?s)\[td[^]]*\](.*?)\[/td\]: group 1 of
\* each match from `from` on
RECURSIVE td_captures(_, _)
td_capture_between(row, k, j) ==
    IF j = -1 THEN << >>
    ELSE << Slice(row, k + 1, j) >> \o td_captures(row, j + 5)

td_capture_after(row, k) ==
    IF k = -1 THEN << >>
    ELSE td_capture_between(row, k, FindStr(row, "[/td]", k + 1))

td_capture_from(row, i) ==
    IF i = -1 THEN << >> ELSE td_capture_after(row, FindChar(row, "]", i + 3))

td_captures(row, from) == td_capture_from(row, FindStr(row, "[td", from))

cells_of_rows(trs) == [r \in 1..Len(trs) |-> td_captures(trs[r], 0)]

\* the raw cell contents of every row, before the recursive parse
table_cells(content) == cells_of_rows(tr_matches(content, 0))

Max(S) == IF S = {} THEN 0 ELSE CHOOSE m \in S : \A x \in S : x <= m

RECURSIVE Spaces(_)
Spaces(n) == IF n <= 0 THEN "" ELSE " " \o Spaces(n - 1)

RECURSIVE JoinSeq(_, _)
JoinSeq(ss, sep) ==
    IF Len(ss) = 0 THEN ""
    ELSE IF Len(ss) = 1 THEN ss[1]
    ELSE ss[1] \o sep \o JoinSeq(Tail(ss), sep)

grid_cell(rows, r, c) == IF c <= Len(rows[r]) THEN rows[r][c] ELSE ""

grid_width(rows, c) == Max({Len(grid_cell(rows, r, c)) : r \in 1..Len(rows)})

grid_padded(text, width) == " " \o text \o Spaces(width - Len(text)) \o " "

grid_line(rows, r, ncols) ==
    JoinSeq([c \in 1..ncols |->
                grid_padded(grid_cell(rows, r, c), grid_width(rows, c))], "")

grid_lines(rows, ncols) ==
    JoinSeq([r \in 1..Len(rows) |-> grid_line(rows, r, ncols)], "\n")

\* Table::from_iter(rows) with Style::empty(), rendered: no borders, every
\* cell padded with one space on each side and to its column's width, short
\* rows completed with empty cells, lines joined by a newline
render_grid(rows) == grid_lines(rows, Max({Len(rows[r]) : r \in 1..Len(rows)}))

----------------------------------------------------------------------------
(* BBCodeParser: parse, process_tag, render_tag                            *)

RECURSIVE parse(_)

\* rows without cells are kept
NonEmptyRow_any(row) == TRUE

\* if cells.is_empty() { None } else { Some(cells) }
NonEmptyRow(row) == Len(row) > 0

grid_or_empty(rows) == IF Len(rows) = 0 THEN "" ELSE render_grid(rows)

parsed_cells(raw) ==
    [r \in 1..Len(raw) |-> [c \in 1..Len(raw[r]) |-> Trim(parse(raw[r][c]))]]

format_table(content) ==
    IF ~Contains(content, "[tr]") \/ ~Contains(content, "[td") THEN ""
    ELSE grid_or_empty(SelectSeq(parsed_cells(table_cells(content)), NonEmptyRow))

\* render_processed with the anchor's href taken from the content even when
\* the tag names a target
render_processed_content_href(tag, processed) ==
    IF tag.kind = "Url" \/ base_name(tag) = "url"
    THEN "<a href=\"" \o processed \o "\">" \o processed \o "</a>"
    ELSE IF tag.kind = "Collapse"
    THEN "[" \o tag.val \o "] " \o processed \o " [/" \o tag.val \o "]"
    ELSE IF tag.kind = "Size"
    THEN "<b>" \o processed \o "</b>"
    ELSE to_html_open(tag) \o processed \o to_html_close(tag)

\* the arms of render_tag that wrap the recursively parsed content
render_processed(tag, processed) ==
    IF tag.kind = "Url"
    THEN "<a href=\"" \o tag.val \o "\">" \o processed \o "</a>"
    ELSE IF tag.kind = "Collapse"
    THEN "[" \o tag.val \o "] " \o processed \o " [/" \o tag.val \o "]"
    ELSE IF tag.kind = "Size"
    THEN "<b>" \o processed \o "</b>"
    ELSE IF base_name(tag) = "url"
    THEN "<a href=\"" \o processed \o "\">" \o processed \o "</a>"
    ELSE to_html_open(tag) \o processed \o to_html_close(tag)

\* the text render_tag pushes onto result
render_tag(tag, content) ==
    IF base_name(tag) = "table"
    THEN to_html_open(tag) \o format_table(content) \o to_html_close(tag)
    ELSE render_processed(tag, parse(content))

all_cells(raw) ==
    UNION {{raw[r][c] : c \in 1..Len(raw[r])} : r \in 1..Len(raw)}

\* the strings render_tag hands to Self::new(..).parse()
render_subs(tag, content) ==
    IF base_name(tag) = "table"
    THEN IF ~Contains(content, "[tr]") \/ ~Contains(content, "[td") THEN {}
         ELSE all_cells(table_cells(content))
    ELSE {content}

\* chars[a..b] panics when a > b or b > len
SliceOk(cs, a, b) == a <= b /\ b <= Len(cs)

Step(p, res, panic, sub) ==
    [pos |-> p, result |-> res, panic |-> panic, subs |-> sub]

\* process_tag after find_closing_tag returned Some(content_end)
process_closed(cs, res, o, content_end) ==
    IF should_remove_content(o.tag)
    THEN Step(skip_closing_tag_at(cs, content_end), res,
              ~SliceOk(cs, o.end, content_end), {})
    ELSE Step(skip_closing_tag_at(cs, content_end),
              res \o render_tag(o.tag, Slice(cs, o.end, content_end)),
              ~SliceOk(cs, o.end, content_end),
              render_subs(o.tag, Slice(cs, o.end, content_end)))

\* the unmatched arm as the earlier parser of lib.rs has it: the character
\* under the cursor is pushed and the cursor moves one further
process_searched_push_current(cs, res, o, content_end) ==
    IF content_end # -1 THEN process_closed(cs, res, o, content_end)
    ELSE Step(o.end + 1, res \o current_char(cs, o.end), FALSE, {})

\* process_tag after the opening tag was parsed and self.pos set to tag_end
process_searched(cs, res, o, content_end) ==
    IF content_end # -1 THEN process_closed(cs, res, o, content_end)
    ELSE Step(o.end, res \o "[", FALSE, {})

\* the bracket and its token are dropped: the cursor jumps behind the next ']'
process_invalid_skip_bracket(cs, p, res) ==
    Step(past_bracket(cs, FindChar(cs, "]", p)), res, FALSE, {})

\* process_tag when parse_opening_tag_at returned None: the character under
\* the cursor is pushed and the cursor moves by one
process_invalid(cs, p, res) == Step(p + 1, res \o current_char(cs, p), FALSE, {})

\* process_tag with the result o of parse_opening_tag_at(self.pos)
process_opened(cs, p, res, o) ==
    IF o.tag # NoTag
    THEN IF is_self_closing(o.tag)
         THEN IF ~should_remove_content(o.tag)
              THEN Step(o.end, res \o to_html_open(o.tag) \o to_html_close(o.tag),
                        FALSE, {})
              ELSE Step(o.end, res, FALSE, {})
         ELSE process_searched(cs, res, o, find_closing_tag(cs, o.end, o.tag))
    ELSE process_invalid(cs, p, res)

\* one call of process_tag with the cursor at p and `res` collected so far
process_tag(cs, p, res) == process_opened(cs, p, res, parse_opening_tag_at(cs, p))

arm_of(cs, o) ==
    IF o.tag = NoTag THEN "invalid"
    ELSE IF is_self_closing(o.tag) THEN "self_closing"
    ELSE IF find_closing_tag(cs, o.end, o.tag) = -1 THEN "unmatched"
    ELSE IF should_remove_content(o.tag) THEN "removed"
    ELSE "rendered"

\* which arm of process_tag the iteration at cursor p takes
process_arm(cs, p) == arm_of(cs, parse_opening_tag_at(cs, p))

\* one iteration of the while loop of parse
parse_iteration(cs, p, res) ==
    IF is_opening_tag(cs, p) THEN process_tag(cs, p, res)
    ELSE Step(p + 1, res \o current_char(cs, p), FALSE, {})

RECURSIVE parse_loop(_, _, _)
parse_continue(cs, st) == parse_loop(cs, st.pos, st.result)

\* the next index after p at which an opening tag may start, the length for
\* none
next_opening(cs, p) ==
    IF {q \in (p + 1)..(Len(cs) - 1) : is_opening_tag(cs, q)} = {} THEN Len(cs)
    ELSE Min({q \in (p + 1)..(Len(cs) - 1) : is_opening_tag(cs, q)})

\* the while loop of parse; the iterations that push one character each, up
\* to the next opening tag, are taken as one run
parse_loop(cs, p, res) ==
    IF p >= Len(cs) THEN res
    ELSE IF is_opening_tag(cs, p)
    THEN parse_continue(cs, parse_iteration(cs, p, res))
    ELSE parse_loop(cs, next_opening(cs, p),
                    res \o Slice(cs, p, next_opening(cs, p)))

\* BBCodeParser::new(input).parse()
parse(input) == parse_loop(input, 0, "")

----------------------------------------------------------------------------
(* The parser as a state machine: one action per arm of one iteration of   *)
(* the while loop of BBCodeParser::parse                                   *)

MaxPieces == 3

MaxDepth == 2

\* fragments that malformed inputs are assembled from
Pieces ==
    {"A", "[", "]", "[b]", "[/b]", "[i]", "[/i]", "[img]", "[/img]", "[s:a]"}

RECURSIVE PieceInputs(_)
PieceInputs(n) ==
    IF n = 0 THEN {""}
    ELSE LET shorter == PieceInputs(n - 1)
         IN  shorter \cup {s \o piece : s \in shorter, piece \in Pieces}

Texts == {"", "A"}

NestTags == {"b", "i", "img"}

Open(name) == "[" \o name \o "]"

Close(name) == "[/" \o name \o "]"

\* properly nested documents: text, a tag pair around a shallower document, text
RECURSIVE NestedInputs(_)
NestedInputs(d) ==
    IF d = 0 THEN Texts
    ELSE Texts \cup
         {t \o Open(x) \o inner \o Close(x) \o u :
             t \in Texts, x \in NestTags, inner \in NestedInputs(d - 1),
             u \in Texts}

\* two properly nested documents side by side
SiblingInputs == {a \o b : a \in NestedInputs(1), b \in NestedInputs(1)}

UrlTargets == {"", "u", "https://x.com"}

UrlContents == {"", "A", "[b]A[/b]", "A[i]B", "[img]A[/img]B"}

UrlInputs ==
    {"[url=" \o t \o "]" \o c \o "[/url]" : t \in UrlTargets, c \in UrlContents}
    \cup {pre \o "[url]" \o c \o "[/url]" \o post :
             pre \in Texts, c \in UrlContents \cup UrlTargets, post \in Texts}

\* every simple tag of the registry and every parameterized form, around text
TagTokens ==
    {TAG_REGISTRY[i].name : i \in 1..Len(TAG_REGISTRY)}
    \cup {"url=u", "collapse=T", "td4", "pid=1", "uid=1", "color=c", "size=1"}

TagInputs ==
    {"[" \o tok \o "]A" \o Close(base_name(BBCodeTag_parse(tok))) : tok \in TagTokens}
    \cup {"[table][tr][td]A[/td][td4]" \o c \o "[/td][/tr][tr][/tr][/table]" :
             c \in UrlContents}

\* the inputs of the repository's parser tests and of the specification
ExampleInputs ==
    {"[b]A[i]B[/i]C[/b]", "X [img]Y[/img] Z", "[b]B[u]U[i]I[/i]V[/u]C[/b]",
     "[b]B[img]image.jpg[/img]C[/b]", "[quote]a[quote]b[/quote]c[/quote]",
     "[b]hello", "A[i]B[b]C[/b]D"}

\* tags written in upper and mixed case, around text without letters
CaseInputs ==
    {"[B]1[/B]", "[B]1[/b]", "[b]1[/B]", "[Quote]1[/QUOTE]", "[URL]1[/Url]",
     "[URL=x]1[/url]", "[Color=c]1[/color]", "[S:a]1",
     "[table][tr][TD4]1[/td][/tr][/table]",
     "[TABLE][TR][TD]1[/TD][/TR][/TABLE]"}

\* brackets that are no tag, alone and around, inside and before known tags
UnknownInputs ==
    {"[x]A", "[x][b]A[/b]", "[b]A[x]B[/b]", "[x", "A[", "[ [b]A[/b]",
     "[x=1]A[/x]", "[[i]A[/i]]", "[bb]A[/bb][s:a]B"}

\* stickers at top level and nested in each formatting tag
StickerInputs ==
    {"[s]AB[/s]", "Hello [s:ac:x] world", "Test [s:ac:cry] more text",
     "[b]A[s:ac:smile]B[/b]", "[s:a]", "A[s:a][s:b]B", "[s:a]A[/s]"}
    \cup {Open(x) \o "A[s:a]B" \o Close(x) : x \in {"b", "i", "u", "s", "del", "quote"}}
    \cup {"[b]X[i]A[s:a]B[/i]Y[/b]"}

\* the rows of a table, each the raw contents of its cells
TableRows ==
    {<< >>, <<"A">>, <<"A", "B">>, <<"C", "D">>, <<" E ", "[b]F[/b]">>}

TableSpecs == {<<r>> : r \in TableRows} \cup (TableRows \X TableRows)

RowText(row) ==
    "[tr]" \o JoinSeq([c \in 1..Len(row) |-> "[td]" \o row[c] \o "[/td]"], "")
    \o "[/tr]"

TableText(t) ==
    "[table]" \o JoinSeq([r \in 1..Len(t) |-> RowText(t[r])], "") \o "[/table]"

TableInputs == {TableText(t) : t \in TableSpecs}

\* a tag nested in a tag of the same name, with siblings and a stray closer
SameNameInputs ==
    {"[quote]a[quote]b[/quote]c[/quote]d", "[b]a[b]b[/b][b]c[/b]d[/b]e",
     "[i]a[i]b[i]c[/i]d[/i]e[/i]f[/i]", "[b]a[B]b[/b]c[/B]",
     "[url=u]a[url]b[/url]c[/url]"}

ParserInputs ==
    PieceInputs(MaxPieces) \cup NestedInputs(MaxDepth) \cup SiblingInputs
    \cup UrlInputs \cup TagInputs \cup ExampleInputs \cup CaseInputs
    \cup UnknownInputs \cup StickerInputs \cup TableInputs \cup SameNameInputs

\* no parser, no cleaner, no truncation under way
ParserIdle ==
    chars = "" /\ pos = 0 /\ result = "" /\ panicked = FALSE /\ subs = {}

CleanIdle ==
    /\ body = "" /\ decoded = "" /\ escaped = "" /\ parsed = "" /\ cleaned = ""
    /\ stage = "idle"

TruncIdle ==
    /\ desc = "" /\ should_truncate = TRUE /\ summary = "" /\ again = ""
    /\ applied = 0

SendIdle ==
    /\ resp = "None"
    /\ builder = [text |-> "", message_id |-> 0, urls |-> << >>,
                  spoiler |-> FALSE, original_urls |-> << >>]
    /\ urlsArg = << >>
    /\ built = 0
    /\ sendPc = "idle"
    /\ calls = << >>
    /\ downloaded_files = << >>
    /\ send_result = "none"
    /\ chat = << >>
    /\ fetched = << >>
    /\ in_flight = {}
    /\ content_type = ""

FullIdle ==
    /\ TRUNCATION_ENABLED = << >>
    /\ hThread = << >> /\ hPc = << >> /\ hCaption = << >> /\ handled = << >>

CacheIdle ==
    /\ lock = << >> /\ B23_CACHE = {} /\ token_valid = FALSE
    /\ cPc = << >> /\ cCalls = 0
    /\ short_url = << >> /\ clean_url = << >> /\ cStart = << >>
    /\ b23_returned = << >>
    /\ attempt = << >> /\ refreshes = << >>

PageIdle ==
    /\ raw_content = "" /\ page_title = "" /\ images = << >>
    /\ page_content = ""
    /\ page_summary = "" /\ pagePc = "idle"

LoopIdle ==
    /\ responses = << >> /\ taken = 0 /\ attempts = << >>
    /\ loopPc = "idle"

ParserInit ==
    /\ chars \in ParserInputs
    /\ pos = 0
    /\ result = ""
    /\ panicked = FALSE
    /\ subs = {}
    /\ CleanIdle
    /\ TruncIdle
    /\ SendIdle
    /\ FullIdle
    /\ CacheIdle
    /\ PageIdle
    /\ LoopIdle

\* the state after one iteration
Iterate ==
    \E st \in {parse_iteration(chars, pos, result)} :
        /\ pos' = st.pos
        /\ result' = st.result
        /\ panicked' = (panicked \/ st.panic)
        /\ subs' = st.subs
        /\ UNCHANGED <<chars, cleanVars, truncVars, sendVars, fullVars, cacheVars, pageVars, loopVars>>

\* parse: the else arm of the loop (plain text, or a closing tag's '[')
CopyChar ==
    /\ pos < Len(chars)
    /\ ~is_opening_tag(chars, pos)
    /\ Iterate

\* process_tag: the bracket does not resolve to a tag
InvalidTag ==
    /\ pos < Len(chars)
    /\ is_opening_tag(chars, pos)
    /\ process_arm(chars, pos) = "invalid"
    /\ Iterate

\* process_tag: a self-closing tag (sticker)
SelfClosingTag ==
    /\ pos < Len(chars)
    /\ is_opening_tag(chars, pos)
    /\ process_arm(chars, pos) = "self_closing"
    /\ Iterate

\* process_tag: a tag without a matching closing tag
UnmatchedTag ==
    /\ pos < Len(chars)
    /\ is_opening_tag(chars, pos)
    /\ process_arm(chars, pos) = "unmatched"
    /\ Iterate

\* process_tag: a content-removing tag with its closing tag
RemovedTag ==
    /\ pos < Len(chars)
    /\ is_opening_tag(chars, pos)
    /\ process_arm(chars, pos) = "removed"
    /\ Iterate

\* process_tag: a tag rendered by render_tag
RenderedTag ==
    /\ pos < Len(chars)
    /\ is_opening_tag(chars, pos)
    /\ process_arm(chars, pos) = "rendered"
    /\ Iterate

\* the loop of parse has ended and `result` is returned
Done == pos >= Len(chars)

Init == ParserInit

Next ==
    \/ CopyChar
    \/ InvalidTag
    \/ SelfClosingTag
    \/ UnmatchedTag
    \/ RemovedTag
    \/ RenderedTag

Spec == Init /\ [][Next]_vars

----------------------------------------------------------------------------
(* The cleaning pipeline: utils.rs text functions, page.rs escape_html and *)
(* ContentCleaner::clean                                                   *)

\* HTML_ENTITY_REGEX: the alternatives of the pattern and what the closure
\* of replace_html_entities returns for each
HTML_ENTITIES ==
    << <<"&quot;", "\"">>, <<"&amp;", "&">>, <<"&lt;", "<">>,
       <<"&gt;", ">">>, <<"&nbsp;", " ">>, <<"&apos;", "'">>,
       <<"<br/>", "\n">>, <<"<br>", "\n">> >>

\* the alternative of HTML_ENTITY_REGEX that matches text at offset p, 0
\* when none does (no two alternatives match at the same offset)
entity_matches(text, p, pattern) ==
    /\ p + Len(pattern) <= Len(text)
    /\ Slice(text, p, p + Len(pattern)) = pattern

entity_at(text, p) ==
    Max({k \in 1..Len(HTML_ENTITIES) :
           entity_matches(text, p, HTML_ENTITIES[k][1])})

\* the next index after p at which an entity starts, the length for none
next_entity(text, p) ==
    IF {q \in (p + 1)..(Len(text) - 1) : entity_at(text, q) # 0} = {}
    THEN Len(text)
    ELSE Min({q \in (p + 1)..(Len(text) - 1) : entity_at(text, q) # 0})

\* the text up to the next entity is copied as it is
RECURSIVE replace_entities_from(_, _)
entity_replaced(text, p, k) ==
    IF k = 0
    THEN Slice(text, p, next_entity(text, p))
           \o replace_entities_from(text, next_entity(text, p))
    ELSE HTML_ENTITIES[k][2]
           \o replace_entities_from(text, p + Len(HTML_ENTITIES[k][1]))

\* replace_all: leftmost matches, scanning on after each one
replace_entities_from(text, p) ==
    IF p >= Len(text) THEN "" ELSE entity_replaced(text, p, entity_at(text, p))

replace_html_entities(text) == replace_entities_from(text, 0)

\* str::replace(char, &str)
RECURSIVE Replace(_, _, _)
Replace(s, c, to) ==
    IF FindChar(s, c, 0) = -1 THEN s
    ELSE Slice(s, 0, FindChar(s, c, 0)) \o to
           \o Replace(Slice(s, FindChar(s, c, 0) + 1, Len(s)), c, to)

escape_html(text) ==
    Replace(Replace(Replace(text, "&", "&amp;"), "<", "&lt;"), ">", "&gt;")

\* the end of the run of '\n' that starts at p
RECURSIVE newline_run_end(_, _)
newline_run_end(text, p) ==
    IF p < Len(text) /\ At(text, p) = "\n"
    THEN newline_run_end(text, p + 1)
    ELSE p

\* the next index after p that holds a '\n', the length for none
next_newline(text, p) ==
    IF FindChar(text, "\n", p + 1) = -1 THEN Len(text)
    ELSE FindChar(text, "\n", p + 1)

\* the text up to the next '\n' is copied as it is
RECURSIVE normalize_from(_, _)
normalize_run(text, p, end) ==
    IF end = p
    THEN Slice(text, p, next_newline(text, p))
           \o normalize_from(text, next_newline(text, p))
    ELSE (IF end - p >= 3 THEN "\n\n" ELSE Slice(text, p, end))
           \o normalize_from(text, end)

\* NEWLINE_REGEX \n{3,} is greedy: a whole run of three or more is one match
normalize_from(text, p) ==
    IF p >= Len(text) THEN ""
    ELSE normalize_run(text, p, newline_run_end(text, p))

normalize_newlines(text) == normalize_from(text, 0)

\* the locals of ContentCleaner::clean, in the order it computes them
clean_parsed(esc) ==
    [escaped |-> esc, parsed |-> parse(esc)]

\* the pipeline with the escape applied to the parser's output instead of
\* its input
clean_stages_parse_first(dec) ==
    [escaped |-> escape_html(dec), parsed |-> escape_html(parse(dec))]

clean_stages(dec) == clean_parsed(escape_html(dec))

ContentCleaner_clean(text) ==
    normalize_newlines(clean_stages(replace_html_entities(text)).parsed)

MaxCleanPieces == 3

CleanPieces ==
    {"<", ">", "&", "&lt;", "&gt;", "&amp;", "<br/>", "\n",
     "[b]", "[/b]", "A"}

RECURSIVE CleanPieceInputs(_)
CleanPieceInputs(n) ==
    IF n = 0 THEN {""}
    ELSE CleanPieceInputs(n - 1)
           \cup {s \o t : s \in CleanPieceInputs(n - 1), t \in CleanPieces}

CleanExamples ==
    {"&lt;b&gt;[b]B[i]I[/i]T[/b] [img]t[/img] [url]u[/url]\n\n\n\nN",
     "[url=&lt;]A&amp;B[/url]", "[url]<[/url]", "[url=a&amp;b]A[/url]",
     "&amp;lt;", "&amp;amp;", "[quote]a<br>b<br><br/><br>c[/quote]",
     "[table][tr][td]&lt;[/td][td]a&amp;b[/td][/tr][/table]",
     "a&nbsp;b&quot;c&apos;d", "[img]<[/img]&gt;", "<b>[b]A", "[b]<i>A</i>[/b]"}

CleanInputs == CleanPieceInputs(MaxCleanPieces) \cup CleanExamples

CleanInit ==
    /\ body \in CleanInputs
    /\ decoded = "" /\ escaped = "" /\ parsed = "" /\ cleaned = ""
    /\ stage = "start"
    /\ ParserIdle
    /\ TruncIdle
    /\ SendIdle
    /\ FullIdle
    /\ CacheIdle
    /\ PageIdle
    /\ LoopIdle

\* let decoded = replace_html_entities(body);
Decode ==
    /\ stage = "start"
    /\ decoded' = replace_html_entities(body)
    /\ stage' = "decoded"
    /\ UNCHANGED <<body, escaped, parsed, cleaned, parserVars, truncVars, sendVars, fullVars, cacheVars, pageVars, loopVars>>

\* let escaped = escape_html(&decoded);
Escape ==
    /\ stage = "decoded"
    /\ escaped' = clean_stages(decoded).escaped
    /\ stage' = "escaped"
    /\ UNCHANGED <<body, decoded, parsed, cleaned, parserVars, truncVars, sendVars, fullVars, cacheVars, pageVars, loopVars>>

\* let parsed = BBCodeParser::new(&escaped).parse();
ParseMarkup ==
    /\ stage = "escaped"
    /\ parsed' = clean_stages(decoded).parsed
    /\ stage' = "parsed"
    /\ UNCHANGED <<body, decoded, escaped, cleaned, parserVars, truncVars, sendVars, fullVars, cacheVars, pageVars, loopVars>>

\* normalize_newlines(&parsed)
Normalize ==
    /\ stage = "parsed"
    /\ cleaned' = normalize_newlines(parsed)
    /\ stage' = "done"
    /\ UNCHANGED <<body, decoded, escaped, parsed, parserVars, truncVars, sendVars, fullVars, cacheVars, pageVars, loopVars>>

NextClean ==
    \/ Decode
    \/ Escape
    \/ ParseMarkup
    \/ Normalize

SpecClean == CleanInit /\ [][NextClean]_vars

----------------------------------------------------------------------------
(* The truncator: common/src/lib.rs substring_desc_with_truncation         *)

\* the soft limit, 600 codepoints in the source, scaled down
SUMMARY_MAX_LENGTH == 2

\* the hard limit, 800 codepoints in the source, scaled down; as in the
\* source it exceeds the soft limit by more than the ellipsis is long
SUMMARY_MAX_MAX_LENGTH == 6

\* the two codepoints U+2026 U+2026 that format! appends, '~' for U+2026
ELLIPSIS == "~~"

\* chars.len() < SUMMARY_MAX_LENGTH, one codepoint stricter than the source
within_limit_strict(n) == n < SUMMARY_MAX_LENGTH

\* chars.len() <= SUMMARY_MAX_LENGTH
within_limit(n) == n <= SUMMARY_MAX_LENGTH

\* the search for '\n' without the skip, from the start of the text
first_newline_unskipped(text, from) == FindChar(text, "\n", 0)

\* the for loop over chars.iter().enumerate().skip(from): the index of the
\* first '\n' at or after from, -1 for None
first_newline(text, from) == FindChar(text, "\n", from)

\* the match with the guard pos <= SUMMARY_MAX_MAX_LENGTH, one past the source
cut_at_inclusive(text, cr_pos) ==
    IF cr_pos # -1 /\ cr_pos <= SUMMARY_MAX_MAX_LENGTH
    THEN Trim(Slice(text, 0, cr_pos))
    ELSE Trim(Slice(text, 0, SUMMARY_MAX_LENGTH)) \o ELLIPSIS

\* match cr_pos { Some(pos) if pos < SUMMARY_MAX_MAX_LENGTH => .., _ => .. }
cut_at(text, cr_pos) ==
    IF cr_pos # -1 /\ cr_pos < SUMMARY_MAX_MAX_LENGTH
    THEN Trim(Slice(text, 0, cr_pos))
    ELSE Trim(Slice(text, 0, SUMMARY_MAX_LENGTH)) \o ELLIPSIS

substring_desc_with_truncation(text, truncate) ==
    IF ~truncate THEN Trim(text)
    ELSE IF within_limit(Len(text)) THEN Trim(text)
    ELSE cut_at(text, first_newline(text, SUMMARY_MAX_LENGTH))

\* which return of substring_desc_with_truncation the text leaves by
newline_arm(cr_pos) ==
    IF cr_pos # -1 /\ cr_pos < SUMMARY_MAX_MAX_LENGTH THEN "newline"
    ELSE "ellipsis"

trunc_arm(text, truncate) ==
    IF ~truncate THEN "off"
    ELSE IF within_limit(Len(text)) THEN "whole"
    ELSE newline_arm(first_newline(text, SUMMARY_MAX_LENGTH))

MaxDescLen == 7

DescChars == {"a", " ", "\n"}

RECURSIVE DescInputs(_)
DescInputs(n) ==
    IF n = 0 THEN {""}
    ELSE DescInputs(n - 1)
           \cup {s \o c : s \in DescInputs(n - 1), c \in DescChars}

TruncInit ==
    /\ desc \in DescInputs(MaxDescLen)
    /\ should_truncate \in BOOLEAN
    /\ summary = ""
    /\ again = ""
    /\ applied = 0
    /\ ParserIdle
    /\ CleanIdle
    /\ SendIdle
    /\ FullIdle
    /\ CacheIdle
    /\ PageIdle
    /\ LoopIdle

\* the text the next application is given: desc, then the summary of desc
trunc_input == IF applied = 0 THEN desc ELSE summary

\* one call of substring_desc_with_truncation
Apply ==
    /\ applied < 2
    /\ applied' = applied + 1
    /\ summary' = IF applied = 0
                  THEN substring_desc_with_truncation(desc, should_truncate)
                  ELSE summary
    /\ again' = IF applied = 1
                THEN substring_desc_with_truncation(summary, should_truncate)
                ELSE again
    /\ UNCHANGED <<desc, should_truncate, parserVars, cleanVars, sendVars, fullVars, cacheVars, pageVars, loopVars>>

\* if !should_truncate { return desc.trim().to_string(); }
ReturnUntruncated ==
    /\ trunc_arm(trunc_input, should_truncate) = "off"
    /\ Apply

\* if chars.len() <= SUMMARY_MAX_LENGTH { return desc.trim().to_string(); }
ReturnWhole ==
    /\ trunc_arm(trunc_input, should_truncate) = "whole"
    /\ Apply

\* Some(pos) if pos < SUMMARY_MAX_MAX_LENGTH
CutAtNewline ==
    /\ trunc_arm(trunc_input, should_truncate) = "newline"
    /\ Apply

\* the arm _ of the match
CutAtLimit ==
    /\ trunc_arm(trunc_input, should_truncate) = "ellipsis"
    /\ Apply

NextTrunc ==
    \/ ReturnUntruncated
    \/ ReturnWhole
    \/ CutAtNewline
    \/ CutAtLimit

SpecTrunc == TruncInit /\ [][NextTrunc]_vars

----------------------------------------------------------------------------
(* The delivery engine: rustgbot/src/bot.rs MessageSenderBuilder and the   *)
(* send functions, and rustgbot/src/main.rs send_bot_responses.  Every     *)
(* awaited network call is one step whose outcome the network decides.     *)

\* the longest media list handed to urls(); one past the builder's limit
MaxUrls == 11

\* how many optional builder calls precede the send
MaxBuilderCalls == 3

\* the limit of MessageSenderBuilder::urls
MAX_GROUP_URLS == 10

\* urls.into_iter().take(n).collect()
Take(s, n) == SubSeq(s, 1, IF n < Len(s) THEN n ELSE Len(s))

\* MessageSenderBuilder::new: message_id 0 stands for None; original_urls is
\* the builder's copy of ProcessorResultMedia.original_urls (set to None at
\* nga/src/fetcher.rs:20), << >> for None
MessageSenderBuilder_new(text) ==
    [text |-> text, message_id |-> 0, urls |-> << >>, spoiler |-> FALSE,
     original_urls |-> << >>]

\* the builder's urls() without the limit
urls_unlimited(b, us) == [b EXCEPT !.urls = us]

\* MessageSenderBuilder::urls
urls(b, us) ==
    [b EXCEPT !.urls = IF Len(us) > MAX_GROUP_URLS
                       THEN Take(us, MAX_GROUP_URLS) ELSE us]

\* MessageSenderBuilder::spoiler
spoiler(b, s) == [b EXCEPT !.spoiler = s]

\* MessageSenderBuilder::message_id
message_id(b, id) == [b EXCEPT !.message_id = id]

\* the builder is given the original URLs of the media, one for each entry
\* of its list
original_urls(b, os) == [b EXCEPT !.original_urls = os]

\* the media URL is of a rewritten (proxy) domain
is_rewritten(url) == StartsWith(url, "px/")

\* &msg.urls[0] of send_photo_single and send_gif; the url of the loop of
\* send_media_group_with_download
media_url(b, i) == b.urls[i]

\* the original URLs never consulted
download_source_as_given(b, i) == b.urls[i]

\* the URL the bytes of item i are downloaded from: the original URL when
\* the request has one and the media URL is of a rewritten domain
download_source(b, i) ==
    IF Len(b.original_urls) >= i /\ is_rewritten(b.urls[i])
    THEN b.original_urls[i]
    ELSE media_url(b, i)

\* the text after the last '.' of the URL's path, "" when there is none
RECURSIVE extension(_)
extension(url) ==
    IF FindChar(url, ".", 0) = -1 THEN ""
    ELSE IF FindChar(url, ".", FindChar(url, ".", 0) + 1) = -1
         THEN Slice(url, FindChar(url, ".", 0) + 1, Len(url))
    ELSE extension(Slice(url, FindChar(url, ".", 0) + 1, Len(url)))

\* common::guess_content_type_from_url, for the extensions of the model's
\* URLs ("" for None); the model's URLs stand for absolute URLs
guess_content_type_from_url(url) ==
    IF extension(url) = "" THEN ""
    ELSE IF ToLowercase(extension(url)) \in {"jpg", "jpeg"} THEN "image/jpeg"
    ELSE IF ToLowercase(extension(url)) = "gif" THEN "image/gif"
    ELSE IF ToLowercase(extension(url)) = "mp4" THEN "video/mp4"
    ELSE IF ToLowercase(extension(url)) = "mp3" THEN "audio/mpeg"
    ELSE IF ToLowercase(extension(url)) = "pdf" THEN "application/pdf"
    ELSE "application/octet-stream"

\* send_file_upload: match content_type
content_type_bucket(ct) ==
    IF StartsWith(ct, "image/gif") THEN "animation"
    ELSE IF StartsWith(ct, "image/") THEN "photo"
    ELSE IF StartsWith(ct, "video/") THEN "video"
    ELSE IF StartsWith(ct, "audio/") THEN "audio"
    ELSE "document"

\* the content types download_file returns: the Content-Type header of the
\* response, application/octet-stream without one
ContentTypes ==
    {"image/jpeg", "image/gif", "video/mp4", "audio/mpeg", "application/pdf",
     "application/octet-stream"}

\* one media item of a request: where its bytes come from ("url" by
\* reference, "memory" after download), its spoiler flag and its caption
\* (<< >> for None)
MediaItem(url, source, has_spoiler) ==
    [url |-> url, source |-> source, has_spoiler |-> has_spoiler,
     caption |-> << >>]

\* an item built with the spoiler flag left at its default
input_media_photo_unflagged(url, source, s) == MediaItem(url, source, FALSE)

\* InputMediaPhoto::new(..) followed by photo.has_spoiler = spoiler
input_media_photo(url, source, s) == MediaItem(url, source, s)

\* the caption set on every item of the group
caption_on_all(group, caption) ==
    [i \in 1..Len(group) |-> [group[i] EXCEPT !.caption = <<caption>>]]

\* if let Some(..) = media_group.first_mut() { media.caption = Some(caption) }
caption_on_first(group, caption) ==
    IF Len(group) = 0 THEN group
    ELSE [group EXCEPT ![1].caption = <<caption>>]

\* the media group of send_media_group_direct and, with the downloaded
\* files, of send_media_group_with_download
media_group_of(us, source, caption, s) ==
    caption_on_first([i \in 1..Len(us) |-> input_media_photo(us[i], source, s)],
                     caption)

\* a message as the chat receives it
ChatMessage(kind, text, media) == [kind |-> kind, text |-> text, media |-> media]

\* apply_settings for SendPhoto (caption, has_spoiler) and for SendAnimation
\* (caption only)
single_item(b, kind, source) ==
    [url |-> b.urls[1], source |-> source,
     has_spoiler |-> (kind = "photo" /\ b.spoiler),
     caption |-> <<b.text>>]

\* send_photo: msg.urls[0].ends_with(".gif") picks send_gif
single_kind(url) == IF EndsWith(url, ".gif") THEN "animation" ELSE "photo"

\* send_photo with a single item handed to the group path
send_photo_route_group_from_one(b) ==
    IF Len(b.urls) = 0 THEN "send_message" ELSE "group_direct"

\* send_photo: the function the request is routed to
send_photo_route(b) ==
    IF Len(b.urls) = 0 THEN "send_message"
    ELSE IF Len(b.urls) = 1 THEN "single_direct"
    ELSE "group_direct"

\* one awaited call and its outcome, as the request's history keeps it;
\* reply_parameters is <<id>> for ReplyParameters::new(MessageId(id)) and
\* << >> for a request without reply parameters
Request(op, item, ok, reply) ==
    [op |-> op, item |-> item, ok |-> ok, reply_parameters |-> reply]

\* a call that is no request to the chat
Call(op, item, ok) == Request(op, item, ok, << >>)

\* if let Some(message_id) = msg.message_id
\*     { request.reply_parameters(ReplyParameters::new(message_id)) }
\* of send_message and of apply_settings
reply_parameters(b) == IF b.message_id # 0 THEN <<b.message_id>> ELSE << >>

\* Option::unwrap_or of the builder's message_id, 0 being None
unwrap_or(id, default) == IF id = 0 THEN default ELSE id

\* send_photo_group: msg.message_id.unwrap_or(MessageId(0)) is handed to
\* send_media_group_direct and send_media_group_with_download, which call
\* .reply_parameters(ReplyParameters::new(message_id))
group_reply_parameters(b) == <<unwrap_or(b.message_id, 0)>>

\* the media URLs "p1.jpg", "p2.jpg", ..
PhotoUrl(i) == "p" \o ToString(i) \o ".jpg"

FirstUrls(n) == [i \in 1..n |-> PhotoUrl(i)]

\* the lists handed to urls(): every length up to MaxUrls, a single GIF, a
\* GIF leading a group, a list out of name order and one with a repeated URL
UrlLists ==
    {FirstUrls(n) : n \in 0..MaxUrls}
    \cup {<<"a.gif">>, <<"a.gif", "p1.jpg">>, <<"p3.jpg", "p1.jpg", "p2.jpg">>,
          <<"p1.jpg", "p1.jpg">>, <<"v.mp4">>, <<"px/a.jpg">>,
          <<"p1.jpg", "px/b.jpg", "px/c.jpg">>}

\* the original URLs of a media list
OriginalUrl(i) == "o" \o ToString(i) \o ".jpg"

OriginalUrls(us) == [i \in 1..Len(us) |-> OriginalUrl(i)]

\* BotResponse::Text, ::Photo (media.caption) and ::Error with their texts
ResponseKinds == {"Text", "Photo", "Error"}

response_text(kind) ==
    IF kind = "Text" THEN "text" ELSE IF kind = "Photo" THEN "caption"
    ELSE "Failed to process"

\* the id of the inbound message that send_bot_responses replies to
ReplyTo == 7

\* send_bot_responses has taken a response and made the builder for it
SendInit ==
    /\ resp \in ResponseKinds
    /\ builder = MessageSenderBuilder_new(response_text(resp))
    /\ urlsArg = << >>
    /\ built = 0
    /\ sendPc = "build"
    /\ calls = << >>
    /\ downloaded_files = << >>
    /\ send_result = "none"
    /\ chat = << >>
    /\ fetched = << >>
    /\ in_flight = {}
    /\ content_type = ""
    /\ ParserIdle
    /\ CleanIdle
    /\ TruncIdle
    /\ FullIdle
    /\ CacheIdle
    /\ PageIdle
    /\ LoopIdle

BuilderCall ==
    /\ sendPc = "build"
    /\ built < MaxBuilderCalls
    /\ built' = built + 1
    /\ UNCHANGED <<resp, sendPc, calls, downloaded_files, send_result, chat,
                   fetched, in_flight, content_type, parserVars, cleanVars, truncVars, fullVars,
                   cacheVars, pageVars, loopVars>>

\* .message_id(message_id)
BuilderMessageId ==
    /\ BuilderCall
    /\ builder' = message_id(builder, ReplyTo)
    /\ UNCHANGED urlsArg

\* .urls(media.urls)
BuilderUrls ==
    /\ BuilderCall
    /\ resp = "Photo"
    /\ builder.original_urls = << >>
    /\ \E us \in UrlLists :
        /\ builder' = urls(builder, us)
        /\ urlsArg' = us

\* the original URLs of the media handed to the builder along with its list
BuilderOriginalUrls ==
    /\ BuilderCall
    /\ resp = "Photo"
    /\ Len(builder.urls) > 0
    /\ builder.original_urls = << >>
    /\ builder' = original_urls(builder, OriginalUrls(builder.urls))
    /\ UNCHANGED urlsArg

\* .spoiler(media.spoiler)
BuilderSpoiler ==
    /\ BuilderCall
    /\ resp = "Photo"
    /\ \E s \in BOOLEAN : builder' = spoiler(builder, s)
    /\ UNCHANGED urlsArg

\* the step of a send function from sendPc to `to`, `call` awaited in between
SendStep(to, call) ==
    /\ sendPc' = to
    /\ calls' = Append(calls, call)
    /\ UNCHANGED <<resp, builder, urlsArg, built, parserVars, cleanVars,
                   truncVars, fullVars,
                   cacheVars, pageVars, loopVars>>

\* .send_message(bot) / .send_photo(bot): the function the builder is handed to
StartSend ==
    /\ sendPc = "build"
    /\ sendPc' = IF resp = "Photo" THEN send_photo_route(builder)
                 ELSE "send_message"
    /\ UNCHANGED <<resp, builder, urlsArg, built, calls, downloaded_files,
                   send_result, chat, fetched, in_flight, content_type,
                   parserVars, cleanVars, truncVars, fullVars,
                   cacheVars, pageVars, loopVars>>

\* a send function returns Ok(message) after the chat received msg
Delivered(msg) ==
    /\ chat' = Append(chat, msg)
    /\ send_result' = "ok"

\* a send function returns Err
Failed ==
    /\ send_result' = "err"
    /\ UNCHANGED chat

\* send_message: Ok(request.await?)
SendMessage ==
    /\ sendPc = "send_message"
    /\ \E ok \in BOOLEAN :
        /\ SendStep("returned",
                    Request("send_message", 0, ok, reply_parameters(builder)))
        /\ IF ok THEN Delivered(ChatMessage("text", builder.text, << >>))
           ELSE Failed
    /\ UNCHANGED <<downloaded_files, fetched, in_flight, content_type>>

\* the by-URL send of a single item answered: on success the function returns
single_after_direct_always_downloads(ok) == "single_download"

\* match request.await { Ok(message) => return Ok(message), Err(e) => .. }
single_after_direct(ok) == IF ok THEN "returned" ELSE "single_download"

\* if let Err(e) = data { return Err(..) }
single_after_download(ok) == IF ok THEN "single_upload" ELSE "returned"

\* the upload's result discarded and the failure of the direct send returned
fallback_result_keeps_error(ok) == "err"

\* Ok(request.await?) of the upload
fallback_result(ok) == IF ok THEN "ok" ELSE "err"

\* the requests of send_photo_single and send_gif, by the item's kind
direct_op(kind) ==
    IF kind = "animation" THEN "send_animation_url" ELSE "send_photo_url"

upload_op(kind) ==
    IF kind = "animation" THEN "send_animation_upload" ELSE "send_photo_upload"

single_message(b, source) ==
    ChatMessage(single_kind(b.urls[1]), b.text,
                <<single_item(b, single_kind(b.urls[1]), source)>>)

\* send_photo_single / send_gif: the first attempt, by URL
SingleDirect ==
    /\ sendPc = "single_direct"
    /\ \E ok \in BOOLEAN :
        /\ SendStep(single_after_direct(ok),
                    Request(direct_op(single_kind(builder.urls[1])), 1, ok,
                            reply_parameters(builder)))
        /\ IF ok THEN Delivered(single_message(builder, "url"))
           ELSE UNCHANGED <<send_result, chat>>
    /\ UNCHANGED <<downloaded_files, fetched, in_flight, content_type>>

\* send_photo_single / send_gif: common::download_file(&msg.urls[0]).await
SingleDownload ==
    /\ sendPc = "single_download"
    /\ \E ok \in BOOLEAN :
        /\ SendStep(single_after_download(ok), Call("download", 1, ok))
        /\ downloaded_files' = IF ok THEN <<builder.urls[1]>> ELSE << >>
        /\ IF ok THEN UNCHANGED <<send_result, chat>> ELSE Failed
        /\ IF ok THEN content_type' \in ContentTypes ELSE UNCHANGED content_type
    /\ fetched' = Append(fetched, download_source(builder, 1))
    /\ UNCHANGED in_flight

\* send_photo_single / send_gif: the second attempt, the downloaded bytes
SingleUpload ==
    /\ sendPc = "single_upload"
    /\ \E ok \in BOOLEAN :
        /\ SendStep("returned",
                    Request(upload_op(single_kind(builder.urls[1])), 1, ok,
                            reply_parameters(builder)))
        /\ send_result' = fallback_result(ok)
        /\ chat' = IF ok THEN Append(chat, single_message(builder, "memory"))
                   ELSE chat
    /\ UNCHANGED <<downloaded_files, fetched, in_flight, content_type>>

\* send_photo_group: match direct_result
group_after_direct(ok) == IF ok THEN "returned" ELSE "group_download"

\* send_media_group_with_download: the loop goes on to the next URL, leaves
\* to build the group after the last one, and returns Err on a failed download
group_after_download(ok, index, n) ==
    IF ~ok THEN "returned"
    ELSE IF index < n THEN "group_download" ELSE "group_upload"

group_message(b, us, source) ==
    ChatMessage("group", b.text, media_group_of(us, source, b.text, b.spoiler))

\* send_photo_group: send_media_group_direct(..).await
GroupDirect ==
    /\ sendPc = "group_direct"
    /\ \E ok \in BOOLEAN :
        /\ SendStep(group_after_direct(ok),
                    Request("send_media_group_url", 0, ok,
                            group_reply_parameters(builder)))
        /\ IF ok THEN Delivered(group_message(builder, builder.urls, "url"))
           ELSE UNCHANGED <<send_result, chat>>
    /\ UNCHANGED <<downloaded_files, fetched, in_flight, content_type>>

\* the index (from 1) of the URL the download loop is at
download_index == 1 + Len(SelectSeq(calls, LAMBDA c : c.op = "download"))

\* every remaining download started at once
next_fetches_all(index, n) == index..n

\* for (index, url) in media_urls.iter().enumerate(): the downloads started
\* when the loop is at index
next_fetches(index, n) == {index}

\* send_media_group_with_download: common::download_file(url) is called
GroupFetch ==
    /\ sendPc = "group_download"
    /\ sendPc' = "group_downloading"
    /\ in_flight' = in_flight \cup next_fetches(download_index, Len(builder.urls))
    /\ fetched' = Append(fetched, download_source(builder, download_index))
    /\ UNCHANGED <<resp, builder, urlsArg, built, calls, downloaded_files,
                   send_result, chat, content_type, parserVars, cleanVars,
                   truncVars, fullVars, cacheVars, pageVars, loopVars>>

\* send_media_group_with_download: the download is answered; the rest of the
\* iteration of the loop
GroupDownload ==
    /\ sendPc = "group_downloading"
    /\ in_flight' = in_flight \ {download_index}
    /\ UNCHANGED <<fetched, content_type>>
    /\ \E ok \in BOOLEAN :
        /\ SendStep(group_after_download(ok, download_index, Len(builder.urls)),
                    Call("download", download_index, ok))
        /\ downloaded_files' =
               IF ok THEN Append(downloaded_files, builder.urls[download_index])
               ELSE downloaded_files
        /\ IF ok THEN UNCHANGED <<send_result, chat>> ELSE Failed

\* send_media_group_with_download: the group is built and sent
GroupUpload ==
    /\ sendPc = "group_upload"
    /\ \E ok \in BOOLEAN :
        /\ SendStep("returned",
                    Request("send_media_group_upload", 0, ok,
                            group_reply_parameters(builder)))
        /\ IF ok THEN Delivered(group_message(builder, downloaded_files, "memory"))
           ELSE Failed
    /\ UNCHANGED <<downloaded_files, fetched, in_flight, content_type>>

\* the reply that send_bot_responses owes the chat is never attempted
needs_error_reply_never(r) == FALSE

\* if let Err(e) = send_result
needs_error_reply(r) == r = "err"

\* send_bot_responses: the send returned Ok, the next response is taken
FinishOk ==
    /\ sendPc = "returned"
    /\ ~needs_error_reply(send_result)
    /\ sendPc' = "finished"
    /\ UNCHANGED <<resp, builder, urlsArg, built, calls, downloaded_files,
                   send_result, chat, fetched, in_flight, content_type,
                   parserVars, cleanVars, truncVars, fullVars,
                   cacheVars, pageVars, loopVars>>

\* send_bot_responses: the error is sent to the chat as a text reply; a
\* failure of that reply is logged only
ErrorReply ==
    /\ sendPc = "returned"
    /\ needs_error_reply(send_result)
    /\ \E ok \in BOOLEAN :
        /\ SendStep("finished", Request("error_reply", 0, ok, <<ReplyTo>>))
        /\ chat' = IF ok THEN Append(chat, ChatMessage("text", "error", << >>))
                   ELSE chat
    /\ UNCHANGED <<downloaded_files, send_result, fetched, in_flight,
                   content_type>>

NextSend ==
    \/ BuilderMessageId
    \/ BuilderUrls
    \/ BuilderOriginalUrls
    \/ BuilderSpoiler
    \/ StartSend
    \/ SendMessage
    \/ SingleDirect
    \/ SingleDownload
    \/ SingleUpload
    \/ GroupDirect
    \/ GroupFetch
    \/ GroupDownload
    \/ GroupUpload
    \/ FinishOk
    \/ ErrorReply

SpecSend == SendInit /\ [][NextSend]_vars

\* ---------------------------------------------------------------------
\* The truncation setting of a handler (common/src/lib.rs, rustgbot/src/
\* main.rs). TRUNCATION_ENABLED is a thread_local: each worker thread of the
\* runtime has its own cell, every handler running on a thread writes that
\* thread's cell, and a handler suspended at an await may be resumed on
\* another worker thread.
\* ---------------------------------------------------------------------

NumThreads == 2

MaxMessages == 2

Threads == 1..NumThreads

\* the handler of a /full command and the handler of a plain message
Handlers == {"full", "link"}

\* a description longer than the truncation limits
LongDesc == "aaaaaaaa \n"

\* process_links_full passes false, process_links passes true
is_truncation(h) == h # "full"

\* TRUNCATION_ENABLED.with(|flag| *flag.borrow()) on the handler's thread
is_truncation_enabled(flags, thread) == flags[thread]

\* TRUNCATION_ENABLED.with(|flag| *flag.borrow_mut() = enabled)
set_truncation_enabled(flags, thread, enabled) ==
    [flags EXCEPT ![thread] = enabled]

substring_desc(d, enabled) ==
    IF ~enabled THEN Trim(d) ELSE substring_desc_with_truncation(d, TRUE)

FullInit ==
    /\ TRUNCATION_ENABLED = [t \in Threads |-> TRUE]
    /\ hThread \in [Handlers -> Threads]
    /\ hPc = [h \in Handlers |-> "start"]
    /\ hCaption = [h \in Handlers |-> << >>]
    /\ handled = [h \in Handlers |-> 0]
    /\ ParserIdle
    /\ CleanIdle
    /\ TruncIdle
    /\ SendIdle
    /\ CacheIdle
    /\ PageIdle
    /\ LoopIdle

FullOthers ==
    <<parserVars, cleanVars, truncVars, sendVars, cacheVars, pageVars, loopVars>>

\* process_links_internal: common::set_truncation_enabled(is_truncation)
SetTruncation(h) ==
    /\ hPc[h] = "start"
    /\ TRUNCATION_ENABLED' =
           set_truncation_enabled(TRUNCATION_ENABLED, hThread[h], is_truncation(h))
    /\ hPc' = [hPc EXCEPT ![h] = "awaiting"]
    /\ UNCHANGED <<hThread, hCaption, handled, FullOthers>>

\* processor.process_captures(&captures).await: the fetch is awaited and the
\* task goes on, on whichever worker thread polls it next
Resume(h) ==
    /\ hPc[h] = "awaiting"
    /\ \E t \in Threads : hThread' = [hThread EXCEPT ![h] = t]
    /\ hPc' = [hPc EXCEPT ![h] = "resumed"]
    /\ UNCHANGED <<TRUNCATION_ENABLED, hCaption, handled, FullOthers>>

\* the processor builds the caption: substring_desc(desc)
Summarize(h) ==
    /\ hPc[h] = "resumed"
    /\ hCaption' =
           [hCaption EXCEPT ![h] =
               <<substring_desc(LongDesc,
                     is_truncation_enabled(TRUNCATION_ENABLED, hThread[h]))>>]
    /\ hPc' = [hPc EXCEPT ![h] = "done"]
    /\ UNCHANGED <<TRUNCATION_ENABLED, hThread, handled, FullOthers>>

\* the dispatcher hands the next update of the kind to a new task
NextMessage(h) ==
    /\ hPc[h] = "done"
    /\ handled[h] < MaxMessages
    /\ handled' = [handled EXCEPT ![h] = @ + 1]
    /\ \E t \in Threads : hThread' = [hThread EXCEPT ![h] = t]
    /\ hPc' = [hPc EXCEPT ![h] = "start"]
    /\ hCaption' = [hCaption EXCEPT ![h] = << >>]
    /\ UNCHANGED <<TRUNCATION_ENABLED, FullOthers>>

NextFull ==
    \/ \E h \in Handlers : SetTruncation(h)
    \/ \E h \in Handlers : Resume(h)
    \/ \E h \in Handlers : Summarize(h)
    \/ \E h \in Handlers : NextMessage(h)

SpecFull == FullInit /\ [][NextFull]_vars

\* ---------------------------------------------------------------------
\* The process-wide caches: B23_CACHE (processor/bili/src/lib.rs) and
\* TOKEN_CACHE (processor/pixiv/src/auth.rs), each behind a std Mutex.
\* lock[k] is the caller holding the mutex of cache k, 0 when it is free.
\* ---------------------------------------------------------------------

NumCallers == 2

MaxCacheCalls == 3

Callers == 1..NumCallers

Caches == {"b23", "token"}

\* the guard is kept alive until the function returns
release_at_return(l, k) == l

\* the guard goes out of scope at the end of its block
release(l, k) == [l EXCEPT ![k] = 0]

\* get_b23_cache().lock() / get_token_cache().lock(): blocks while it is held
acquire(l, k, c) == [l EXCEPT ![k] = c]

\* the short URLs get_b23_redirect is called with
ShortUrls == {"b23.tv/a", "b23.tv/b"}

\* the targets a redirect response names
Targets == {"t1", "t2"}

\* the lookup that never finds an entry
cache_get_none(cache, k) == {}

\* cache.get(short_url): the targets held for the key, {} for None
cache_get(cache, k) == {e[2] : e \in {x \in cache : x[1] = k}}

\* cache.insert(short_url, clean_url): the entry of the key is replaced
cache_insert(cache, k, v) == {e \in cache : e[1] # k} \cup {<<k, v>>}

\* a call that returned Ok(target): its argument, whether it made the network
\* request, and how many calls had returned Ok when it began
Returned(url, target, requested, start) ==
    [url |-> url, target |-> target, requested |-> requested, start |-> start]

CacheInit ==
    /\ lock = [k \in Caches |-> 0]
    /\ B23_CACHE = {}
    /\ token_valid = FALSE
    /\ cPc = [c \in Callers |-> "idle"]
    /\ cCalls = 0
    /\ short_url = [c \in Callers |-> ""]
    /\ clean_url = [c \in Callers |-> ""]
    /\ cStart = [c \in Callers |-> 0]
    /\ b23_returned = << >>
    /\ attempt = [c \in Callers |-> 0]
    /\ refreshes = [c \in Callers |-> 0]
    /\ ParserIdle
    /\ CleanIdle
    /\ TruncIdle
    /\ SendIdle
    /\ FullIdle
    /\ PageIdle
    /\ LoopIdle

CacheOthers ==
    <<parserVars, cleanVars, truncVars, sendVars, fullVars, pageVars, loopVars>>

\* caller c moves to pc `to`
Goto(c, to) == cPc' = [cPc EXCEPT ![c] = to]

\* caller c returns from get_b23_redirect
B23Return(c) ==
    /\ Goto(c, "idle")
    /\ short_url' = [short_url EXCEPT ![c] = ""]
    /\ clean_url' = [clean_url EXCEPT ![c] = ""]
    /\ cStart' = [cStart EXCEPT ![c] = 0]

\* a processor calls get_b23_redirect(short_url) or
\* get_access_token_with_retry()
CacheCall(c) ==
    /\ cPc[c] = "idle"
    /\ cCalls < MaxCacheCalls
    /\ cCalls' = cCalls + 1
    /\ \/ /\ Goto(c, "b23_lock")
          /\ \E u \in ShortUrls : short_url' = [short_url EXCEPT ![c] = u]
          /\ cStart' = [cStart EXCEPT ![c] = Len(b23_returned)]
          /\ UNCHANGED attempt
       \/ /\ Goto(c, "token_lock")
          /\ attempt' = [attempt EXCEPT ![c] = 1]
          /\ UNCHANGED <<short_url, cStart>>
    /\ UNCHANGED <<lock, B23_CACHE, clean_url, b23_returned, token_valid,
                   refreshes, CacheOthers>>

\* get_b23_redirect: let cache = get_b23_cache().lock().unwrap()
B23Lock(c) ==
    /\ cPc[c] = "b23_lock"
    /\ lock["b23"] = 0
    /\ lock' = acquire(lock, "b23", c)
    /\ Goto(c, "b23_lookup")
    /\ UNCHANGED <<b23Vars, token_valid, cCalls, retryVars,
                   CacheOthers>>

\* get_b23_redirect: cache.get(short_url), a hit returns Ok(cached_url), the
\* block ends
B23Lookup(c) ==
    /\ cPc[c] = "b23_lookup"
    /\ lock' = release(lock, "b23")
    /\ IF cache_get(B23_CACHE, short_url[c]) # {}
       THEN /\ \E t \in cache_get(B23_CACHE, short_url[c]) :
                   b23_returned' =
                       Append(b23_returned,
                              Returned(short_url[c], t, FALSE, cStart[c]))
            /\ B23Return(c)
       ELSE /\ Goto(c, "b23_request")
            /\ UNCHANGED <<short_url, clean_url, cStart, b23_returned>>
    /\ UNCHANGED <<B23_CACHE, token_valid, cCalls, retryVars,
                   CacheOthers>>

\* get_b23_redirect: client.get(short_url).send().await?, then the checks of
\* the response, each returning Err; clean_url is the Location it names
B23Request(c) ==
    /\ cPc[c] = "b23_request"
    /\ \/ /\ \E t \in Targets : clean_url' = [clean_url EXCEPT ![c] = t]
          /\ Goto(c, "b23_store_lock")
          /\ UNCHANGED <<short_url, cStart>>
       \/ B23Return(c)
    /\ UNCHANGED <<lock, B23_CACHE, b23_returned, token_valid, cCalls,
                   retryVars, CacheOthers>>

\* get_b23_redirect: let mut cache = get_b23_cache().lock().unwrap()
B23StoreLock(c) ==
    /\ cPc[c] = "b23_store_lock"
    /\ lock["b23"] = 0
    /\ lock' = acquire(lock, "b23", c)
    /\ Goto(c, "b23_store")
    /\ UNCHANGED <<b23Vars, token_valid, cCalls, retryVars,
                   CacheOthers>>

\* get_b23_redirect: cache.insert(..), the block ends, Ok(clean_url)
B23Store(c) ==
    /\ cPc[c] = "b23_store"
    /\ B23_CACHE' = cache_insert(B23_CACHE, short_url[c], clean_url[c])
    /\ b23_returned' =
           Append(b23_returned,
                  Returned(short_url[c], clean_url[c], TRUE, cStart[c]))
    /\ lock' = release(lock, "b23")
    /\ B23Return(c)
    /\ UNCHANGED <<token_valid, cCalls, retryVars,
                   CacheOthers>>

\* the first failure is returned to the caller
after_failed_attempt_returns(n) == "idle"

\* get_access_token_with_retry: Err(e) of the first get_access_token() goes
\* on to the clearing of the cache and the second call, whose result is
\* returned
after_failed_attempt(n) == IF n = 1 THEN "token_clear_lock" ELSE "idle"

\* get_access_token_with_retry returns to its caller
TokenReturn(c) ==
    /\ Goto(c, "idle")
    /\ attempt' = [attempt EXCEPT ![c] = 0]

\* get_access_token returned Ok(token) to get_access_token_with_retry, which
\* returns it
TokenOk(c) == TokenReturn(c)

\* get_access_token returned Err(e) to get_access_token_with_retry
TokenErr(c) ==
    IF after_failed_attempt(attempt[c]) = "idle" THEN TokenReturn(c)
    ELSE Goto(c, after_failed_attempt(attempt[c])) /\ UNCHANGED attempt

\* get_access_token: let cache = get_token_cache().lock().unwrap()
TokenLock(c) ==
    /\ cPc[c] = "token_lock"
    /\ lock["token"] = 0
    /\ lock' = acquire(lock, "token", c)
    /\ Goto(c, "token_lookup")
    /\ UNCHANGED <<b23Vars, token_valid, cCalls, retryVars, CacheOthers>>

\* get_access_token: cache.get_token(), a valid token returns, the block
\* ends; without one PIXIV_REFRESH_TOKEN is read, and Err is returned when
\* it is not set
TokenLookup(c) ==
    /\ cPc[c] = "token_lookup"
    /\ lock' = release(lock, "token")
    /\ IF token_valid THEN TokenOk(c) /\ refreshes' = [refreshes EXCEPT ![c] = 0]
       ELSE \/ Goto(c, "token_request") /\ UNCHANGED retryVars
            \/ /\ TokenErr(c)
               /\ refreshes' =
                      [refreshes EXCEPT
                          ![c] = IF after_failed_attempt(attempt[c]) = "idle"
                                 THEN 0 ELSE @]
    /\ UNCHANGED <<b23Vars, token_valid, cCalls, CacheOthers>>

\* the refresh requests of the call, reset when it returns
refreshes_after(c, n) ==
    [refreshes EXCEPT ![c] = IF cPc'[c] = "idle" THEN 0 ELSE n]

\* refresh_access_token: client.post(..).send().await? and the status check
TokenRequest(c) ==
    /\ cPc[c] = "token_request"
    /\ \E ok \in BOOLEAN :
        IF ok THEN Goto(c, "token_body") /\ UNCHANGED attempt
        ELSE TokenErr(c)
    /\ refreshes' = refreshes_after(c, refreshes[c] + 1)
    /\ UNCHANGED <<lock, b23Vars, token_valid, cCalls, CacheOthers>>

\* refresh_access_token: response.text().await? and the parse of the body
TokenBody(c) ==
    /\ cPc[c] = "token_body"
    /\ \E ok \in BOOLEAN :
        IF ok THEN Goto(c, "token_store_lock") /\ UNCHANGED attempt
        ELSE TokenErr(c)
    /\ refreshes' = refreshes_after(c, refreshes[c])
    /\ UNCHANGED <<lock, b23Vars, token_valid, cCalls, CacheOthers>>

\* refresh_access_token: let mut cache = get_token_cache().lock().unwrap()
TokenStoreLock(c) ==
    /\ cPc[c] = "token_store_lock"
    /\ lock["token"] = 0
    /\ lock' = acquire(lock, "token", c)
    /\ Goto(c, "token_store")
    /\ UNCHANGED <<b23Vars, token_valid, cCalls, retryVars, CacheOthers>>

\* refresh_access_token: cache.set_token(..), the block ends, Ok(token)
TokenStore(c) ==
    /\ cPc[c] = "token_store"
    /\ token_valid' = TRUE
    /\ lock' = release(lock, "token")
    /\ TokenOk(c)
    /\ refreshes' = [refreshes EXCEPT ![c] = 0]
    /\ UNCHANGED <<b23Vars, cCalls, CacheOthers>>

\* get_access_token_with_retry: let mut cache = get_token_cache().lock()
TokenClearLock(c) ==
    /\ cPc[c] = "token_clear_lock"
    /\ lock["token"] = 0
    /\ lock' = acquire(lock, "token", c)
    /\ Goto(c, "token_clear")
    /\ UNCHANGED <<b23Vars, token_valid, cCalls, retryVars, CacheOthers>>

\* get_access_token_with_retry: cache.clear(), the block ends, and
\* get_access_token() is called once more
TokenClear(c) ==
    /\ cPc[c] = "token_clear"
    /\ token_valid' = FALSE
    /\ lock' = release(lock, "token")
    /\ attempt' = [attempt EXCEPT ![c] = 2]
    /\ Goto(c, "token_lock")
    /\ UNCHANGED <<b23Vars, cCalls, refreshes, CacheOthers>>

\* TokenCache::is_valid: the time passes expires_at less the margin
TokenExpire ==
    /\ token_valid
    /\ token_valid' = FALSE
    /\ UNCHANGED <<lock, b23Vars, cPc, cCalls, retryVars, CacheOthers>>

NextCache ==
    \/ \E c \in Callers : CacheCall(c)
    \/ \E c \in Callers : B23Lock(c)
    \/ \E c \in Callers : B23Lookup(c)
    \/ \E c \in Callers : B23Request(c)
    \/ \E c \in Callers : B23StoreLock(c)
    \/ \E c \in Callers : B23Store(c)
    \/ \E c \in Callers : TokenLock(c)
    \/ \E c \in Callers : TokenLookup(c)
    \/ \E c \in Callers : TokenRequest(c)
    \/ \E c \in Callers : TokenBody(c)
    \/ \E c \in Callers : TokenStoreLock(c)
    \/ \E c \in Callers : TokenStore(c)
    \/ \E c \in Callers : TokenClearLock(c)
    \/ \E c \in Callers : TokenClear(c)
    \/ TokenExpire

SpecCache == CacheInit /\ [][NextCache]_vars

\* ---------------------------------------------------------------------
\* The page of a post: processor/nga/src/page.rs NGAPage::from_html and
\* to_summary, with get_nga_img_links of processor/nga/src/utils.rs.
\* ---------------------------------------------------------------------

\* str::rfind(c): the last index of c in s, -1 for None
RFindChar(s, c) ==
    IF {i \in 0..(Len(s) - 1) : At(s, i) = c} = {} THEN -1
    ELSE Max({i \in 0..(Len(s) - 1) : At(s, i) = c})

\* img_link_process: the first let, the link made absolute
absolute_link(img_link) ==
    IF StartsWith(img_link, "http://") \/ StartsWith(img_link, "https://")
    THEN img_link
    ELSE IF Len(img_link) >= 2 /\ StartsWith(img_link, "./")
    THEN "https://img.nga.178.com/attachments/" \o Slice(img_link, 2, Len(img_link))
    ELSE img_link

\* img_link_process: filename[..second_last_dot] when the file name has two
\* dots, the link as it is otherwise
strip_quality_suffix(link, url_prefix, filename, last_dot) ==
    IF last_dot = -1 THEN link
    ELSE IF RFindChar(Slice(filename, 0, last_dot), ".") = -1 THEN link
    ELSE url_prefix \o Slice(filename, 0, RFindChar(Slice(filename, 0, last_dot), "."))

high_quality_link(link, last_slash) ==
    IF last_slash = -1 THEN link
    ELSE strip_quality_suffix(link, Slice(link, 0, last_slash + 1),
                              Slice(link, last_slash + 1, Len(link)),
                              RFindChar(Slice(link, last_slash + 1, Len(link)), "."))

img_link_process(img_link) ==
    high_quality_link(absolute_link(img_link), RFindChar(absolute_link(img_link), "/"))

\* IMG_REGEX \[img\](.*?)\[/img\]: the captures of the matches from offset p
\* on, leftmost first; '.' matches no line break, and the names are matched
\* as written
RECURSIVE img_captures_from(_, _)
img_capture_closed(content, open, close) ==
    IF close = -1 THEN << >>
    ELSE IF Contains(Slice(content, open + 5, close), "\n")
    THEN img_captures_from(content, open + 1)
    ELSE <<Slice(content, open + 5, close)>>
         \o img_captures_from(content, close + 6)

img_capture_opened(content, open) ==
    IF open = -1 THEN << >>
    ELSE img_capture_closed(content, open, FindStr(content, "[/img]", open + 5))

img_captures_from(content, p) ==
    img_capture_opened(content, FindStr(content, "[img]", p))

\* captures_iter(content).filter_map(.. img_link_process ..).collect()
links_of(captures) == [i \in 1..Len(captures) |-> img_link_process(captures[i])]

get_nga_img_links(content) == links_of(img_captures_from(content, 0))

\* the URL of the page
PageUrl == "u"

\* NGAPage::to_summary; the truncation setting is the one of a plain message
title_html(url, escaped_title) ==
    "<b><u><a href=\"" \o url \o "\">" \o escaped_title \o "</a></u></b>"

to_summary(url, t, c) ==
    title_html(url, escape_html(Trim(t))) \o "\n\n" \o substring_desc(c, TRUE)

\* the raw contents of the post: inner_html() of p#postcontent0
PageInputs ==
    {"", "A", "AB", "A\nB", "[b]A[/b]", "[b]AB[/b]", "[u]ABC[/u]", "[s]A[/s]",
     "[del]A[/del]", "[quote]abc[/quote]", "[i]A[/i]\n[b]B[/b]", "&lt;b&gt;",
     "[url=u]x[/url]", "[url=a\"b]c[/url]", "[url]a\"b[/url]",
     "[url=a&quot;b]c[/url]", "[url]x[/url]",
     "[img]./a.jpg[/img]", "[img]./a[/img]B[img]./b[/img]",
     "[IMG]./a.jpg[/IMG]", "[Img]./a.jpg[/img]", "[img]./a.jpg[/IMG]",
     "[img]./a\n.jpg[/img]", "[b][img]./a.jpg[/img][/b]",
     "[img]./a.jpg.medium.jpg[/img]", "[img]http://h/a[/img]", "[img]x[/img", "[img][/img]",
     "[img]./a[/img]<br/>[img]./b[/img]", "A[img]./a.jpg[/img]",
     "[table][tr][td][img]a[/img][/td][/tr][/table]",
     "[b][img]a[/img][i][img]b[/img][/i][/b]"}

\* the texts of h3#postsubject0
Titles == {"T", " <T> "}

PageInit ==
    /\ raw_content \in PageInputs
    /\ page_title \in Titles
    /\ images = << >>
    /\ page_content = ""
    /\ page_summary = ""
    /\ pagePc = "raw"
    /\ ParserIdle
    /\ CleanIdle
    /\ TruncIdle
    /\ SendIdle
    /\ FullIdle
    /\ CacheIdle
    /\ LoopIdle

PageOthers ==
    <<parserVars, cleanVars, truncVars, sendVars, fullVars, cacheVars,
      loopVars>>

\* from_html: let images = get_nga_img_links(&raw_content);
ExtractImages ==
    /\ pagePc = "raw"
    /\ images' = get_nga_img_links(raw_content)
    /\ pagePc' = "images"
    /\ UNCHANGED <<raw_content, page_title, page_content, page_summary,
                   PageOthers>>

\* from_html: let content = ContentCleaner::clean(&raw_content);
CleanContent ==
    /\ pagePc = "images"
    /\ page_content' = ContentCleaner_clean(raw_content)
    /\ pagePc' = "page"
    /\ UNCHANGED <<raw_content, page_title, images, page_summary, PageOthers>>

\* to_summary of the page
ToSummary ==
    /\ pagePc = "page"
    /\ page_summary' = to_summary(PageUrl, page_title, page_content)
    /\ pagePc' = "summary"
    /\ UNCHANGED <<raw_content, page_title, images, page_content, PageOthers>>

NextPage ==
    \/ ExtractImages
    \/ CleanContent
    \/ ToSummary

SpecPage == PageInit /\ [][NextPage]_vars

\* ---------------------------------------------------------------------
\* The loop of send_bot_responses (rustgbot/src/main.rs) over the list of
\* responses; what one send does is the delivery engine above.
\* ---------------------------------------------------------------------

MaxResponses == 3

\* the lists send_bot_responses is called with
RECURSIVE ResponseLists(_)
ResponseLists(n) ==
    IF n = 0 THEN {<< >>}
    ELSE ResponseLists(n - 1)
         \cup {Append(l, k) : l \in {x \in ResponseLists(n - 1) : Len(x) = n - 1},
                              k \in ResponseKinds}

\* one awaited send: the index of the response it is for, whether it is the
\* fallback message, and its outcome
Attempt(index, kind, fallback, ok) ==
    [index |-> index, kind |-> kind, fallback |-> fallback, ok |-> ok]

\* if let Err(e) = send_result { .. }: the fallback is sent for a failed send
after_send(ok) == IF ok THEN "take" ELSE "fallback"

\* the loop is left when the fallback failed as well
after_fallback_break(ok) == IF ok THEN "take" ELSE "done"

\* if let Err(fallback_err) = .. { log::error!(..) }: the loop goes on
after_fallback(ok) == "take"

LoopInit ==
    /\ responses \in ResponseLists(MaxResponses)
    /\ taken = 0
    /\ attempts = << >>
    /\ loopPc = "take"
    /\ ParserIdle
    /\ CleanIdle
    /\ TruncIdle
    /\ SendIdle
    /\ FullIdle
    /\ CacheIdle
    /\ PageIdle

LoopOthers ==
    <<parserVars, cleanVars, truncVars, sendVars, fullVars, cacheVars,
      pageVars>>

\* for resp in responses { let send_result = match resp { .. }.await;
TakeAndSend ==
    /\ loopPc = "take"
    /\ taken < Len(responses)
    /\ taken' = taken + 1
    /\ \E ok \in BOOLEAN :
        /\ attempts' = Append(attempts,
                              Attempt(taken + 1, responses[taken + 1], FALSE, ok))
        /\ loopPc' = after_send(ok)
    /\ UNCHANGED <<responses, LoopOthers>>

\* MessageSenderBuilder::new(chat_id, e.to_string()).message_id(message_id)
\*     .send_message(bot).await
SendFallback ==
    /\ loopPc = "fallback"
    /\ \E ok \in BOOLEAN :
        /\ attempts' = Append(attempts, Attempt(taken, "Error", TRUE, ok))
        /\ loopPc' = after_fallback(ok)
    /\ UNCHANGED <<responses, taken, LoopOthers>>

\* the list is used up: send_bot_responses returns
LoopReturn ==
    /\ loopPc = "take"
    /\ taken = Len(responses)
    /\ loopPc' = "done"
    /\ UNCHANGED <<responses, taken, attempts, LoopOthers>>

NextLoop ==
    \/ TakeAndSend
    \/ SendFallback
    \/ LoopReturn

SpecLoop == LoopInit /\ [][NextLoop]_vars

----------------------------------------------------------------------------
(* Reference reading of properly nested markup, independent of the parser: *)
(* a left-to-right token substitution with a stack of open tag names       *)

FormatNames == {"b", "i", "u", "s", "del", "quote"}

HtmlName(n) == IF n = "quote" THEN "blockquote" ELSE n

Nested(ok, out) == [ok |-> ok, out |-> out]

\* ok: the brackets of cs from p on are exactly properly nested pairs of
\* FormatNames and img tags; out: the opening and closing markup in the order
\* of the tags, the text in place, and nothing for what lies inside an img pair
RECURSIVE NestedReading(_, _, _, _)
NestedReading(cs, p, stack, out) ==
    IF p >= Len(cs) THEN Nested(stack = << >>, out)
    ELSE LET hidden == \E k \in 1..Len(stack) : stack[k] = "img"
             e == FindChar(cs, "]", p + 1)
             tok == Slice(cs, p + 1, e)
         IN  IF At(cs, p) = "]" THEN Nested(FALSE, out)
             ELSE IF At(cs, p) # "["
             THEN NestedReading(cs, p + 1, stack,
                                IF hidden THEN out ELSE out \o At(cs, p))
             ELSE IF e = -1 THEN Nested(FALSE, out)
             ELSE IF tok = "img"
             THEN NestedReading(cs, e + 1, <<"img">> \o stack, out)
             ELSE IF tok \in FormatNames
             THEN NestedReading(cs, e + 1, <<tok>> \o stack,
                                IF hidden THEN out
                                ELSE out \o "<" \o HtmlName(tok) \o ">")
             ELSE IF stack # << >> /\ tok = "/" \o stack[1]
             THEN NestedReading(cs, e + 1, Tail(stack),
                                IF hidden THEN out
                                ELSE out \o "</" \o HtmlName(stack[1]) \o ">")
             ELSE Nested(FALSE, out)

Reading(cs) == NestedReading(cs, 0, << >>, "")

NoBracket(s) == ~Contains(s, "[") /\ ~Contains(s, "]")

----------------------------------------------------------------------------
(* Claims about BBCodeParser                                               *)

\* C1: when an opening tag resolves to a known tag but has no matching
\* closing tag, the iteration emits the '[' alone and leaves the cursor on the
\* character right after that '[', so the tag's name and ']' are parsed next
C1_UnmatchedOpenerBacksOff ==
    [][(/\ pos < Len(chars)
        /\ is_opening_tag(chars, pos)
        /\ process_arm(chars, pos) = "unmatched")
       => (pos' = pos + 1 /\ result' = result \o "[")]_vars

\* C2: every iteration of the parse loop moves the cursor strictly forward
\* and never past the end of the input, no slice of the input is out of range,
\* and every string handed to a recursive sub-parser is strictly shorter than
\* the input, so the loop ends after at most Len(chars) iterations
C2_ParseTerminates ==
    [][/\ pos' > pos
       /\ pos' <= Len(chars)
       /\ ~panicked'
       /\ \A c \in subs' : Len(c) < Len(chars)]_vars

C2_Witness ==
    /\ Done
    /\ chars = "[b][/b][i]"
    /\ pos = Len(chars)

\* C3: for a properly nested input of formatting tags the result is the
\* opening markup in the order of the opening tags, the closing markup in the
\* mirrored order, and the text segments unchanged and in place
C3_NestedMirrors ==
    (Done /\ ~Contains(chars, "[img]") /\ Reading(chars).ok)
        => result = Reading(chars).out

C3_Witness ==
    /\ Done
    /\ chars = "[b]A[i]B[/i]C[/b]"
    /\ result = "<b>A<i>B</i>C</b>"

\* one character standing for each HTML metacharacter of the user's text,
\* none of which occurs in the inputs, and the entity each is written as
Opaque(s) == Replace(Replace(Replace(s, "&", "^"), "<", "{"), ">", "}")

Entities(s) ==
    Replace(Replace(Replace(s, "^", "&amp;"), "{", "&lt;"), "}", "&gt;")

Count(s, c) == Cardinality({i \in 0..(Len(s) - 1) : At(s, i) = c})

EntityStarts(s, i) ==
    \E e \in {"&amp;", "&lt;", "&gt;"} : entity_matches(s, i, e)

C5_RemovedPairLeavesNothing ==
    /\ (Done /\ Contains(chars, "[img]") /\ Reading(chars).ok)
           => result = Reading(chars).out
    /\ LET i == FindStr(chars, "[img]", 0)
           j == FindStr(chars, "[/img]", i + 5)
       IN  (/\ Done
            /\ i # -1
            /\ j # -1
            /\ FindStr(chars, "[img]", i + 1) = -1
            /\ NoBracket(Slice(chars, 0, i))
            /\ NoBracket(Slice(chars, j + 6, Len(chars))))
               => result = Slice(chars, 0, i) \o Slice(chars, j + 6, Len(chars))

C5_Witness ==
    \/ Done /\ chars = "X [img]Y[/img] Z" /\ result = "X  Z"
    \/ Done /\ chars = "[b]B[img]image.jpg[/img]C[/b]" /\ result = "<b>BC</b>"

\* C6: [url=T]C[/url] gives an anchor whose href is exactly T around the
\* parsed C; [url]C[/url] gives an anchor whose href and text are the parsed C
C6_UrlAnchors ==
    /\ \A t \in UrlTargets, c \in UrlContents :
           (Done /\ chars = "[url=" \o t \o "]" \o c \o "[/url]")
               => result = "<a href=\"" \o t \o "\">" \o parse(c) \o "</a>"
    /\ \A pre \in Texts, c \in UrlContents \cup UrlTargets, post \in Texts :
           (Done /\ chars = pre \o "[url]" \o c \o "[/url]" \o post)
               => result = pre \o "<a href=\"" \o parse(c) \o "\">" \o parse(c)
                               \o "</a>" \o post

C6_Witness ==
    \/ /\ Done
       /\ chars = "[url=https://x.com]A[/url]"
       /\ result = "<a href=\"https://x.com\">A</a>"
    \/ /\ Done
       /\ chars = "[url]https://x.com[/url]"
       /\ result = "<a href=\"https://x.com\">https://x.com</a>"

\* the index just past the '>' that ends the tag starting at p, a '>' inside a
\* double-quoted attribute value not counting; -1 when the tag never ends
RECURSIVE TagEnd(_, _, _)
TagEnd(s, p, quoted) ==
    IF p >= Len(s) THEN -1
    ELSE IF At(s, p) = "\"" THEN TagEnd(s, p + 1, ~quoted)
    ELSE IF At(s, p) = ">" /\ ~quoted THEN p + 1
    ELSE TagEnd(s, p + 1, quoted)

\* the HTML tags of s from p on, in order; <<"?">> for a tag that never ends
RECURSIVE HtmlTags(_, _)
HtmlTags(s, p) ==
    IF p >= Len(s) THEN << >>
    ELSE IF At(s, p) # "<" THEN HtmlTags(s, p + 1)
    ELSE LET e == TagEnd(s, p + 1, FALSE)
         IN  IF e = -1 THEN <<"?">>
             ELSE <<Slice(s, p, e)>> \o HtmlTags(s, e)

\* bold, italic, underline, strikethrough (s and del), blockquote,
\* preformatted block, anchor with href
InVocabulary(t) ==
    \/ t \in {"<b>", "</b>", "<i>", "</i>", "<u>", "</u>", "<s>", "</s>",
              "<del>", "</del>", "<blockquote>", "</blockquote>",
              "<pre>", "</pre>", "</a>"}
    \/ StartsWith(t, "<a href=\"") /\ EndsWith(t, "\">")

\* C7: every HTML tag in what the parser has emitted belongs to the fixed
\* vocabulary, for every catalog entry and every special-case rendering
C7_OutputVocabulary ==
    \A k \in 1..Len(HtmlTags(result, 0)) : InVocabulary(HtmlTags(result, 0)[k])

C7_Witness ==
    /\ Done
    /\ Contains(chars, "[table]")
    /\ Contains(result, "<pre>")
    /\ Contains(result, "<b>")

\* the indices of the '\n' at or after the soft limit and before the hard one
NewlineWindow(text) ==
    {i \in SUMMARY_MAX_LENGTH..(SUMMARY_MAX_MAX_LENGTH - 1) :
       i < Len(text) /\ At(text, i) = "\n"}

\* the text is longer than the soft limit and has no newline to cut at
CutsAtLimit(text) ==
    Len(text) > SUMMARY_MAX_LENGTH /\ NewlineWindow(text) = {}

CutsAtNewline(text) ==
    Len(text) > SUMMARY_MAX_LENGTH /\ NewlineWindow(text) # {}

\* C8 as stated: truncating a truncated text changes nothing
C8_Idempotent ==
    applied = 2 => again = summary

\* C8: truncating a truncated text changes nothing when the first result has
\* at most soft-limit codepoints, or when the first application cut at the
\* soft limit and trimming removed nothing, so that the result is soft-limit
\* codepoints followed by the ellipsis
C8_IdempotentWithinSoftLimit ==
    (/\ applied = 2
     /\ should_truncate
     /\ \/ Len(summary) <= SUMMARY_MAX_LENGTH
        \/ /\ CutsAtLimit(desc)
           /\ Len(summary) = SUMMARY_MAX_LENGTH + Len(ELLIPSIS))
    => again = summary

C8_Witness ==
    /\ applied = 2
    /\ should_truncate
    /\ CutsAtLimit(desc)
    /\ Len(summary) = SUMMARY_MAX_LENGTH + Len(ELLIPSIS)
    /\ again = summary

\* C9 as stated: a truncated text has at most soft limit plus ellipsis length
\* codepoints, a cut at a newline included
C9_AtMostSoftPlusEllipsis ==
    (applied >= 1 /\ should_truncate)
    => Len(summary) <= SUMMARY_MAX_LENGTH + Len(ELLIPSIS)

\* C9: a text cut at a newline has at most as many codepoints as the index
\* of that newline, which is below the hard limit; every other truncated
\* text has at most soft limit plus ellipsis length codepoints
C9_LengthBound ==
    (applied >= 1 /\ should_truncate)
    => IF CutsAtNewline(desc)
       THEN /\ Len(summary) <= Min(NewlineWindow(desc))
            /\ Len(summary) < SUMMARY_MAX_MAX_LENGTH
       ELSE Len(summary) <= SUMMARY_MAX_LENGTH + Len(ELLIPSIS)

C9_Witness ==
    /\ applied >= 1
    /\ should_truncate
    /\ CutsAtNewline(desc)
    /\ Len(summary) = SUMMARY_MAX_MAX_LENGTH - 1
    /\ Len(summary) > SUMMARY_MAX_LENGTH + Len(ELLIPSIS)

\* C10: a text of at most soft-limit codepoints is returned (trimmed) without
\* ellipsis; a longer one is cut at the first newline at or after the soft
\* limit when that newline is before the hard limit, trimmed and without
\* ellipsis; otherwise it is cut at the soft limit, trimmed, and the ellipsis
\* is appended
C10_CutPoint ==
    (applied >= 1 /\ should_truncate)
    => /\ Len(desc) <= SUMMARY_MAX_LENGTH => summary = Trim(desc)
       /\ CutsAtNewline(desc)
            => summary = Trim(Slice(desc, 0, Min(NewlineWindow(desc))))
       /\ CutsAtLimit(desc)
            => summary = Trim(Slice(desc, 0, SUMMARY_MAX_LENGTH)) \o ELLIPSIS

C10_Witness ==
    /\ applied >= 1
    /\ should_truncate
    /\ desc = "a\naa\naa"
    /\ summary = "a\naa"

\* ---- the delivery engine ----

DirectOps == {"send_photo_url", "send_animation_url", "send_media_group_url"}

UploadOps ==
    {"send_photo_upload", "send_animation_upload", "send_media_group_upload"}

FallbackOps == UploadOps \cup {"download"}

CallsOf(ops) == SelectSeq(calls, LAMBDA c : c.op \in ops)

SendEnded == sendPc \in {"returned", "finished"}

\* the by-URL send of a single item failed, the download and then the upload
\* succeeded
SingleFallbackSucceeded ==
    /\ Len(calls) >= 3
    /\ calls[1].op \in {"send_photo_url", "send_animation_url"} /\ ~calls[1].ok
    /\ calls[2].op = "download" /\ calls[2].ok
    /\ calls[3].op \in {"send_photo_upload", "send_animation_upload"}
    /\ calls[3].ok

\* C11: a single-media request whose direct send fails and whose download and
\* upload both succeed ends with the uploaded message as its outcome: the
\* result is Ok, the chat holds that message alone, and no error reply is
\* attempted.
C11_SingleFallbackDelivers ==
    SingleFallbackSucceeded =>
        /\ send_result = "ok"
        /\ chat = <<single_message(builder, "memory")>>
        /\ Len(CallsOf({"error_reply"})) = 0

C11_Witness == SingleFallbackSucceeded /\ sendPc = "finished"

\* the batched by-reference send failed and the fallback has returned
GroupFallbackEnded ==
    /\ SendEnded
    /\ Len(calls) >= 1
    /\ calls[1].op = "send_media_group_url" /\ ~calls[1].ok

\* C12: in the media-group fallback a failed download does not fail the
\* batch: once the fallback has returned, a download was attempted for every
\* item of the request, and if any item was downloaded the group was uploaded
\* with exactly the downloaded items.
C12_FailedItemSkipped ==
    GroupFallbackEnded =>
        /\ Len(CallsOf({"download"})) = Len(builder.urls)
        /\ Len(downloaded_files) > 0 =>
               Len(CallsOf({"send_media_group_upload"})) = 1

\* "k/N"
Annotation(k, n) == ToString(k) \o "/" \o ToString(n)

\* C13: when the fallback of a batch of N items has returned with k items
\* downloaded, 0 < k < N, and no upload has failed, the send has succeeded and
\* the caption of the first item sent contains "k/N"; when all N items were
\* downloaded and the upload succeeded the caption is the request's text.
C13_PartialCaptionAnnotated ==
    GroupFallbackEnded /\ Len(downloaded_files) > 0
    /\ (\A i \in 1..Len(calls) : calls[i].op \in UploadOps => calls[i].ok) =>
        /\ send_result = "ok"
        /\ Len(chat) >= 1
        /\ chat[1].kind = "group"
        /\ Len(chat[1].media[1].caption) = 1
        /\ IF Len(downloaded_files) = Len(builder.urls)
           THEN chat[1].media[1].caption[1] = builder.text
           ELSE Contains(chat[1].media[1].caption[1],
                         Annotation(Len(downloaded_files), Len(builder.urls)))

\* every strategy of a single-item send has failed
SingleExhausted ==
    /\ Len(calls) >= 2
    /\ calls[1].op \in {"send_photo_url", "send_animation_url"} /\ ~calls[1].ok
    /\ \/ calls[2].op = "download" /\ ~calls[2].ok
       \/ /\ Len(calls) >= 3
          /\ calls[3].op \in {"send_photo_upload", "send_animation_upload"}
          /\ ~calls[3].ok

\* C14: when the direct send and the download-then-upload path of a single
\* item have both failed, the send returns Err, and once the request has
\* ended the error reply was attempted and, if it got through, is the text
\* the chat received; no request ends without a delivered message or an
\* attempted error reply.
C14_ExhaustionSurfaces ==
    /\ SingleExhausted =>
           /\ send_result = "err"
           /\ sendPc = "finished" =>
                  /\ Len(CallsOf({"error_reply"})) = 1
                  /\ calls[Len(calls)].ok =>
                         chat = <<ChatMessage("text", "error", << >>)>>
    /\ sendPc = "finished" =>
           \/ send_result = "ok" /\ Len(chat) >= 1
           \/ Len(CallsOf({"error_reply"})) = 1

C14_Witness ==
    /\ SingleExhausted
    /\ sendPc = "finished"
    /\ chat = <<ChatMessage("text", "error", << >>)>>

\* C15: the strategies run in order and once each: a request with media
\* starts with its by-reference send; there is at most one by-reference send,
\* one download per item and one upload; a download or an upload happens only
\* after the by-reference send has failed, and the upload after every download.
C15_StrategiesInOrder ==
    /\ Len(CallsOf(DirectOps)) <= 1
    /\ Len(CallsOf(UploadOps)) <= 1
    /\ \A i, j \in 1..Len(calls) :
           calls[i].op = "download" /\ calls[j].op = "download" /\ i # j =>
               calls[i].item # calls[j].item
    /\ \A j \in 1..Len(calls) :
           calls[j].op \in FallbackOps =>
               /\ calls[1].op \in DirectOps /\ ~calls[1].ok
               /\ calls[j].op \in UploadOps =>
                      \A i \in 1..Len(calls) : calls[i].op = "download" => i < j
    /\ \A j \in 1..Len(calls) : calls[j].op \in DirectOps => j = 1

C15_Witness ==
    /\ sendPc = "finished"
    /\ Len(CallsOf({"download"})) = 3
    /\ Len(CallsOf(UploadOps)) = 1
    /\ send_result = "ok"

\* the URLs of the media of a message, in the order they were sent
MediaUrls(msg) == [i \in 1..Len(msg.media) |-> msg.media[i].url]

\* C16: whatever builder calls were made, the request's URL list is the first
\* 10 entries of the list last passed to urls(), in their order, and no
\* message carries more media than that list.
C16_UrlsCapped ==
    /\ Len(builder.urls) <= MAX_GROUP_URLS
    /\ Len(builder.urls) <= Len(urlsArg)
    /\ \A i \in 1..Len(builder.urls) : builder.urls[i] = urlsArg[i]
    /\ Len(urlsArg) <= MAX_GROUP_URLS => builder.urls = urlsArg
    /\ Len(urlsArg) > MAX_GROUP_URLS => Len(builder.urls) = MAX_GROUP_URLS
    /\ \A m \in 1..Len(chat) :
           /\ Len(chat[m].media) <= MAX_GROUP_URLS
           /\ \A i \in 1..Len(chat[m].media) :
                  chat[m].media[i].url = urlsArg[i]

C16_Witness ==
    /\ Len(urlsArg) > MAX_GROUP_URLS
    /\ Len(chat) = 1
    /\ Len(chat[1].media) = MAX_GROUP_URLS

\* sub is full with some entries left out
RECURSIVE IsSubsequence(_, _)
IsSubsequence(sub, full) ==
    IF Len(sub) = 0 THEN TRUE
    ELSE IF Len(full) = 0 THEN FALSE
    ELSE IF Head(sub) = Head(full) THEN IsSubsequence(Tail(sub), Tail(full))
    ELSE IsSubsequence(sub, Tail(full))

\* C17: the items of every media group sent are in the order of the request's
\* list, the first item carries the caption and no other item carries one.
C17_GroupOrderAndCaption ==
    \A m \in 1..Len(chat) :
        chat[m].kind = "group" =>
            /\ IsSubsequence(MediaUrls(chat[m]), builder.urls)
            /\ Len(chat[m].media) >= 1
            /\ \A i \in 1..Len(chat[m].media) :
                   chat[m].media[i].caption =
                       IF i = 1 THEN <<builder.text>> ELSE << >>

C17_Witness ==
    /\ Len(chat) = 1
    /\ chat[1].kind = "group"
    /\ MediaUrls(chat[1]) = <<"p3.jpg", "p1.jpg", "p2.jpg">>
    /\ chat[1].media[1].source = "memory"

\* C18: every item of every media group sent has the request's spoiler flag.
C18_UniformSpoiler ==
    \A m \in 1..Len(chat) :
        chat[m].kind = "group" =>
            \A i \in 1..Len(chat[m].media) :
                chat[m].media[i].has_spoiler = builder.spoiler

C18_Witness ==
    /\ Len(chat) = 1
    /\ chat[1].kind = "group"
    /\ builder.spoiler
    /\ Len(chat[1].media) >= 2
    /\ \E i \in 1..Len(calls) : calls[i].op = "send_media_group_upload"

\* ---- concurrency ----

\* C19: a caption produced while handling a /full command is never
\* truncated: whatever the other handler does and whichever thread resumes
\* the task, the caption is the whole trimmed description.
C19_FullNeverTruncated ==
    hCaption["full"] # << >> => hCaption["full"] = <<Trim(LongDesc)>>

\* the pcs at which a caller has a network request in flight
NetworkPcs == {"b23_request", "token_request", "token_body"}

\* C20: no caller holds the mutex of either cache while it has a network
\* request in flight, and a caller holds a mutex only at its lookup or update
\* (the insert of an entry, the store of a token, the clearing before a
\* retry).
C20_NoLockAcrossNetwork ==
    \A c \in Callers :
        /\ cPc[c] \in NetworkPcs => \A k \in Caches : lock[k] # c
        /\ \A k \in Caches :
               lock[k] = c =>
                   cPc[c] \in {k \o "_lookup", k \o "_store", k \o "_clear"}

\* one caller awaits the token refresh while the other holds the token mutex
C20_Witness ==
    \E c, d \in Callers :
        /\ c # d
        /\ cPc[c] = "token_request"
        /\ lock["token"] = d
        /\ cPc[d] = "token_lookup"

\* ---- the parser: letter case, unknown brackets, tables, stickers, depth ----

\* C24: tag names are matched whatever their letter case: an input whose tags
\* are written in upper or mixed case gives the result of the same input with
\* its tags in lower case.
C24_CaseInsensitiveTags ==
    (Done /\ chars \in CaseInputs) => result = parse(ToLowercase(chars))

\* the inputs with a bracket that is no tag, and what the parser owes for them
UnknownOutputs ==
    {<<"[x]A", "[x]A">>, <<"[x][b]A[/b]", "[x]<b>A</b>">>,
     <<"[b]A[x]B[/b]", "<b>A[x]B</b>">>, <<"[x", "[x">>, <<"A[", "A[">>,
     <<"[ [b]A[/b]", "[ <b>A</b>">>, <<"[x=1]A[/x]", "[x=1]A[/x]">>,
     <<"[[i]A[/i]]", "[<i>A</i>]">>, <<"[bb]A[/bb][s:a]B", "[bb]A[/bb]B">>}

\* the cursor is on a '[' that opens no known tag
AtInvalidBracket ==
    /\ pos < Len(chars)
    /\ is_opening_tag(chars, pos)
    /\ parse_opening_tag_at(chars, pos).tag = NoTag

\* C25: a '[' that opens no known tag, with or without a ']' after it, is
\* emitted as it is and the cursor moves by exactly one character; the whole
\* bracketed text is in the output unchanged and the known tags inside and
\* after it are rendered.
C25_UnknownBracketLiteral ==
    /\ [][AtInvalidBracket => (pos' = pos + 1 /\ result' = result \o "[")]_vars
    /\ [](\A e \in UnknownOutputs : (Done /\ chars = e[1]) => result = e[2])

C25_Witness == Done /\ chars = "[x][b]A[/b]" /\ result = "[x]<b>A</b>"

\* the lines of s
RECURSIVE SplitLines(_)
SplitLines(s) ==
    IF FindChar(s, "\n", 0) = -1 THEN <<s>>
    ELSE <<Slice(s, 0, FindChar(s, "\n", 0))>>
         \o SplitLines(Slice(s, FindChar(s, "\n", 0) + 1, Len(s)))

\* the texts occur in s from index `from` on, one after the other
RECURSIVE OccurInOrder(_, _, _)
OccurInOrder(s, texts, from) ==
    IF Len(texts) = 0 THEN TRUE
    ELSE IF FindStr(s, Head(texts), from) = -1 THEN FALSE
    ELSE OccurInOrder(s, Tail(texts), FindStr(s, Head(texts), from) + Len(Head(texts)))

\* what a cell of TableRows shows: its markup rendered, its ends trimmed
CellOut(c) == IF c = " E " THEN "E" ELSE IF c = "[b]F[/b]" THEN "<b>F</b>" ELSE c

KeptRows(t) == SelectSeq(t, LAMBDA row : Len(row) > 0)

GridOf(res) == Slice(res, 6, Len(res) - 6)

TableShown(t, res) ==
    /\ StartsWith(res, "\n<pre>")
    /\ EndsWith(res, "</pre>")
    /\ IF Len(KeptRows(t)) = 0 THEN GridOf(res) = ""
       ELSE /\ Len(SplitLines(GridOf(res))) = Len(KeptRows(t))
            /\ \A r \in 1..Len(KeptRows(t)) :
                   OccurInOrder(SplitLines(GridOf(res))[r],
                                [c \in 1..Len(KeptRows(t)[r]) |->
                                    CellOut(KeptRows(t)[r][c])], 0)

\* C26: the grid of a table has one line for each row with at least one cell
\* and none for a row without cells, and each line holds the parsed and
\* trimmed contents of the row's cells from left to right.
C26_TableGrid ==
    (Done /\ StartsWith(chars, "[table][tr]")) =>
        \A t \in TableSpecs : chars = TableText(t) => TableShown(t, result)

C26_Witness ==
    /\ Done
    /\ chars = TableText(<< <<"A", "B">>, <<"C", "D">> >>)
    /\ result = "\n<pre> A  B \n C  D </pre>"

\* the cursor is on the '[' of a sticker tag
AtSticker ==
    /\ pos < Len(chars)
    /\ is_opening_tag(chars, pos)
    /\ FindChar(chars, "]", pos + 1) # -1
    /\ StartsWith(Slice(chars, pos + 1, FindChar(chars, "]", pos + 1)), "s:")

\* C27: at a sticker tag the parser emits nothing and moves the cursor right
\* behind the tag's ']', whatever follows; the text around a sticker is kept as
\* it is, at top level and inside every formatting tag, and nothing of the
\* sticker is in the output.
C27_StickerSelfClosing ==
    /\ [][AtSticker =>
            (result' = result /\ pos' = FindChar(chars, "]", pos + 1) + 1)]_vars
    /\ [](Done =>
            /\ chars = "Hello [s:ac:x] world" => result = "Hello  world"
            /\ chars = "Test [s:ac:cry] more text" => result = "Test  more text"
            /\ chars = "[b]A[s:ac:smile]B[/b]" => result = "<b>AB</b>"
            /\ chars = "[b]X[i]A[s:a]B[/i]Y[/b]" => result = "<b>X<i>AB</i>Y</b>"
            /\ chars = "[s:a]A[/s]" => result = "A[/s]"
            /\ \A x \in {"b", "i", "u", "s", "del", "quote"} :
                   chars = Open(x) \o "A[s:a]B" \o Close(x) =>
                       Contains(result, "AB") /\ ~Contains(result, ":"))

C27_Witness == Done /\ chars = "[b]A[s:ac:smile]B[/b]" /\ result = "<b>AB</b>"

\* an opening tag of the base name stands at i
OpensName(cs, i, name) ==
    /\ parse_opening_tag_at(cs, i).tag # NoTag
    /\ base_name(parse_opening_tag_at(cs, i).tag) = name

\* the depth counter after the '[' at q was looked at: 1 at the start, one up
\* for each opening tag of the name before q, one down for each closing tag of
\* the name up to q
DepthAt(cs, from, q, name) ==
    1 + Cardinality({i \in from..(q - 1) :
                        ~is_closing_tag_at(cs, i, name) /\ OpensName(cs, i, name)})
      - Cardinality({i \in from..q : is_closing_tag_at(cs, i, name)})

FirstAtDepthZero(cs, from, name) ==
    MinOrNone({q \in from..(Len(cs) - 1) :
                  is_closing_tag_at(cs, q, name) /\ DepthAt(cs, from, q, name) = 0})

\* the cursor is on an opening tag for which a closing tag is searched
AtSearchedTag ==
    /\ pos < Len(chars)
    /\ is_opening_tag(chars, pos)
    /\ parse_opening_tag_at(chars, pos).tag # NoTag
    /\ ~is_self_closing(parse_opening_tag_at(chars, pos).tag)

\* C30: find_closing_tag returns the closing tag at which the depth counter
\* first reaches zero (None when it never does), so a tag nested in a tag of
\* its own name is closed by the inner closing tag and the outer one by the
\* outer closing tag.
C30_DepthCountedClose ==
    /\ AtSearchedTag =>
           find_closing_tag(chars, parse_opening_tag_at(chars, pos).end,
                            parse_opening_tag_at(chars, pos).tag)
           = FirstAtDepthZero(chars, parse_opening_tag_at(chars, pos).end,
                              base_name(parse_opening_tag_at(chars, pos).tag))
    /\ Done =>
           /\ chars = "[quote]a[quote]b[/quote]c[/quote]d" =>
                  result = "<blockquote>a<blockquote>b</blockquote>c</blockquote>d"
           /\ chars = "[b]a[b]b[/b][b]c[/b]d[/b]e" =>
                  result = "<b>a<b>b</b><b>c</b>d</b>e"

C30_Witness ==
    /\ Done
    /\ chars = "[quote]a[quote]b[/quote]c[/quote]d"
    /\ result = "<blockquote>a<blockquote>b</blockquote>c</blockquote>d"

\* ---- the delivery engine: download source, content type, routing ----

\* the URL the claim names for the download of item i
NamedSource(i) ==
    IF builder.original_urls # << >> /\ is_rewritten(builder.urls[i])
    THEN builder.original_urls[i]
    ELSE builder.urls[i]

ResolvedType(ct, url) ==
    IF ct = "application/octet-stream" /\ guess_content_type_from_url(url) # ""
    THEN guess_content_type_from_url(url)
    ELSE ct

\* the upload request of a bucket
BucketUpload(bucket) == "send_" \o bucket \o "_upload"

\* the by-URL send of a single item failed, its download succeeded and the
\* upload was made
SingleUploaded ==
    /\ Len(calls) >= 3
    /\ calls[1].op \in {"send_photo_url", "send_animation_url"} /\ ~calls[1].ok
    /\ calls[2].op = "download" /\ calls[2].ok
    /\ calls[3].op \in UploadOps

\* C22: after the download of a single item succeeded the bytes are uploaded
\* through the bucket of the resolved content type: image/gif as animation,
\* other images as photo, video as video, audio as audio, the rest as
\* document.
C22_UploadByContentType ==
    SingleUploaded =>
        calls[3].op =
            BucketUpload(content_type_bucket(
                ResolvedType(content_type, builder.urls[1])))

\* the requests of the single-media path and of the media-group path
SingleOps ==
    {"send_photo_url", "send_animation_url", "send_photo_upload",
     "send_animation_upload"}

GroupOps == {"send_media_group_url", "send_media_group_upload"}

\* the first request send_photo owes a request with n items, the first of
\* them being url
FirstRequest(n, url) ==
    IF n = 0 THEN "send_message"
    ELSE IF n > 1 THEN "send_media_group_url"
    ELSE IF EndsWith(url, ".gif") THEN "send_animation_url"
    ELSE "send_photo_url"

\* C23: send_photo picks the strategy by the number of media items alone: no
\* item gives a text message and no media request, one item the single-media
\* path (the animation request for a URL ending in .gif, the photo request
\* otherwise), more than one item the media-group path.
C23_RouteByMediaCount ==
    (resp = "Photo" /\ Len(calls) >= 1) =>
        /\ calls[1].op =
               FirstRequest(Len(builder.urls),
                            IF Len(builder.urls) = 0 THEN "" ELSE builder.urls[1])
        /\ \A i \in 1..Len(calls) :
               /\ Len(builder.urls) = 0 =>
                      calls[i].op \in {"send_message", "error_reply"}
               /\ Len(builder.urls) = 1 => calls[i].op \notin GroupOps
               /\ Len(builder.urls) > 1 => calls[i].op \notin SingleOps
               /\ Len(builder.urls) > 0 => calls[i].op # "send_message"

C23_Witness ==
    /\ resp = "Photo"
    /\ builder.urls = <<"a.gif">>
    /\ Len(calls) >= 1
    /\ calls[1].op = "send_animation_url"

\* C28 as stated: the downloads of a batch are made one at a time and in the
\* order of the list, and while one is in flight the bytes of no earlier item
\* are held any more.
C28_BytesReleasedBeforeNextFetch ==
    /\ Cardinality(in_flight) <= 1
    /\ in_flight # {} => in_flight = {Len(fetched)}
    /\ in_flight # {} => downloaded_files = << >>

\* C28 as the code has it: the downloads of a batch are made one at a time
\* and in the order of the list, and the bytes of every item downloaded so
\* far are held until the whole group is uploaded in one request.
C28_SequentialDownloadsHeld ==
    /\ Cardinality(in_flight) <= 1
    /\ in_flight # {} => in_flight = {Len(fetched)}
    /\ sendPc \in {"group_download", "group_downloading", "group_upload"} =>
           /\ downloaded_files = SubSeq(builder.urls, 1, Len(CallsOf({"download"})))
           /\ Len(fetched) = Len(downloaded_files) + Cardinality(in_flight)
    /\ sendPc = "group_upload" => Len(downloaded_files) = Len(builder.urls)

C28_Witness ==
    /\ sendPc = "group_downloading"
    /\ in_flight = {3}
    /\ Len(downloaded_files) = 2

\* ---- the short-link cache ----

\* call j of b23_returned began after call i had returned Ok for the same URL
LaterCall(i, j) ==
    /\ i < j
    /\ b23_returned[j].url = b23_returned[i].url
    /\ b23_returned[j].start >= i

\* the last call before j that stored a target for the URL of call j
LastStore(j) ==
    Max({m \in 1..(j - 1) :
            /\ b23_returned[m].url = b23_returned[j].url
            /\ b23_returned[m].requested})

\* a caller past its lookup, on the way to the network or back from it
Requesting(c) == cPc[c] \in {"b23_request", "b23_store_lock", "b23_store"}

\* C29 as stated: once get_b23_redirect has returned Ok for a short URL,
\* every call for that URL that begins later makes no network request and
\* returns the same target, and the cache holds exactly one entry for the URL.
C29_LaterCallsSameTarget ==
    /\ \A i, j \in 1..Len(b23_returned) :
           LaterCall(i, j) =>
               /\ ~b23_returned[j].requested
               /\ b23_returned[j].target = b23_returned[i].target
    /\ \A i \in 1..Len(b23_returned) :
           Cardinality({e \in B23_CACHE : e[1] = b23_returned[i].url}) = 1
    /\ \A c \in Callers :
           Requesting(c) =>
               \A i \in 1..cStart[c] : b23_returned[i].url # short_url[c]

\* C29 as the code has it: once get_b23_redirect has returned Ok for a short
\* URL, every call for that URL that begins later makes no network request
\* and returns the target the cache holds, which is the one stored last (a
\* call that was awaiting its response when the first one returned stores its
\* own answer over the entry); the cache holds exactly one entry for the URL.
C29_LaterCallsReadCache ==
    /\ \A i, j \in 1..Len(b23_returned) :
           LaterCall(i, j) =>
               /\ ~b23_returned[j].requested
               /\ b23_returned[j].target = b23_returned[LastStore(j)].target
               /\ (b23_returned[j].target = b23_returned[i].target
                   \/ \E m \in (i + 1)..(j - 1) :
                          /\ b23_returned[m].url = b23_returned[i].url
                          /\ b23_returned[m].requested
                          /\ b23_returned[m].start < i)
    /\ \A i \in 1..Len(b23_returned) :
           Cardinality({e \in B23_CACHE : e[1] = b23_returned[i].url}) = 1
    /\ \A c \in Callers :
           Requesting(c) =>
               \A i \in 1..cStart[c] : b23_returned[i].url # short_url[c]

\* a call that began after two answers were stored for its URL has returned
C29_Witness ==
    /\ Len(b23_returned) = 3
    /\ LaterCall(1, 3)
    /\ LaterCall(2, 3)
    /\ b23_returned[1].target # b23_returned[2].target
    /\ ~b23_returned[3].requested

\* ---- the parser: stickers and strikethrough ----

\* C33: a sticker inside a strikethrough span leaves the matching of the
\* span's closing tag alone: the [s] of "[s]A[s:a]B[/s]" is paired with the
\* [/s] and the result is <s>AB</s>, as it is for the span without a sticker.
C33_StickerInStrikethrough ==
    Done =>
        /\ chars = "[s]A[s:a]B[/s]" => result = "<s>AB</s>"
        /\ chars = "[s]AB[/s]" => result = "<s>AB</s>"

\* ---- the page: images, caption markup, anchors ----

\* the sequences of seqs joined in order
RECURSIVE Flatten(_)
Flatten(seqs) == IF Len(seqs) = 0 THEN << >> ELSE Head(seqs) \o Flatten(Tail(seqs))

\* the contents of the blocks that the parse of cs removes, from cursor p on
\* and in the sub-parsers of the tags it renders, in order of occurrence
RECURSIVE RemovedFrom(_, _)
RemovedInTable(cells) ==
    Flatten([r \in 1..Len(cells) |->
                Flatten([c \in 1..Len(cells[r]) |-> RemovedFrom(cells[r][c], 0)])])

RemovedInside(tag, inner) ==
    IF base_name(tag) = "table"
    THEN IF ~Contains(inner, "[tr]") \/ ~Contains(inner, "[td") THEN << >>
         ELSE RemovedInTable(table_cells(inner))
    ELSE RemovedFrom(inner, 0)

RemovedAt(cs, o, arm, next) ==
    (IF arm = "removed"
     THEN <<Slice(cs, o.end, find_closing_tag(cs, o.end, o.tag))>>
     ELSE IF arm = "rendered"
     THEN RemovedInside(o.tag, Slice(cs, o.end, find_closing_tag(cs, o.end, o.tag)))
     ELSE << >>)
    \o RemovedFrom(cs, next)

RemovedAtBracket(cs, q) ==
    IF q = -1 THEN << >>
    ELSE IF ~is_opening_tag(cs, q) THEN RemovedFrom(cs, q + 1)
    ELSE RemovedAt(cs, parse_opening_tag_at(cs, q), process_arm(cs, q),
                   parse_iteration(cs, q, "").pos)

RemovedFrom(cs, p) == RemovedAtBracket(cs, FindChar(cs, "[", p))

\* the image blocks the parser removes from the raw content raw
RemovedBlocks(raw) == RemovedFrom(escape_html(replace_html_entities(raw)), 0)

\* C34: every image block the parser removes from the caption is in the media
\* list: the links extracted from the raw content are, one for one and in
\* order, the links of the blocks removed, whatever the case of the tag and
\* also when the block spans a line break.
C34_RemovedImagesExtracted ==
    pagePc \in {"page", "summary"} =>
        images = links_of(RemovedBlocks(raw_content))

\* the name of the tag token between '<' and '>': up to the first space
TagName(token) ==
    IF FindChar(token, " ", 0) = -1 THEN token
    ELSE Slice(token, 0, FindChar(token, " ", 0))

\* from offset p on, every '<' of s opens a token that a '>' ends, and the
\* tokens are opening tags and their closing tags, properly nested; open is
\* the stack of the tags open at p
RECURSIVE Balanced(_, _, _)
BalancedToken(s, open, token, next) ==
    IF StartsWith(token, "/")
    THEN /\ Len(open) > 0
         /\ Head(open) = Slice(token, 1, Len(token))
         /\ Balanced(s, next, Tail(open))
    ELSE Balanced(s, next, <<TagName(token)>> \o open)

BalancedTag(s, open, lt, gt) ==
    /\ gt # -1
    /\ BalancedToken(s, open, Slice(s, lt + 1, gt), gt + 1)

BalancedAt(s, open, lt) ==
    IF lt = -1 THEN Len(open) = 0
    ELSE BalancedTag(s, open, lt, FindChar(s, ">", lt + 1))

Balanced(s, p, open) == BalancedAt(s, open, FindChar(s, "<", p))

WellFormed(s) == Balanced(s, 0, << >>)

\* C35: the caption to_summary returns is well-formed HTML: the truncation of
\* the cleaned content cuts inside no tag and leaves no opened tag without
\* its closing tag.
C35_SummaryWellFormed ==
    (pagePc = "summary" /\ WellFormed(page_content)) => WellFormed(page_summary)

\* the offsets behind the href=" of the anchors of s
HrefValues(s) ==
    {i + 9 : i \in {j \in 0..(Len(s) - 9) : Slice(s, j, j + 9) = "<a href=\""}}

\* the double quote that ends the value at v is the one before the '>' of
\* the anchor: the value holds no double quote of its own
HrefClosed(s, v) ==
    /\ FindChar(s, "\"", v) # -1
    /\ At(s, FindChar(s, "\"", v) + 1) = ">"

\* C38: no href emitted for a URL tag holds an unescaped double quote: the
\* first double quote after href=" is the one that ends the attribute, right
\* before the '>' of the anchor.
C38_HrefQuoteFree ==
    pagePc \in {"page", "summary"} =>
        \A v \in HrefValues(page_content) : HrefClosed(page_content, v)

\* ---- the delivery engine: reply parameters and the spoiler flag ----

\* the requests that send the builder's content to the chat
ContentOps ==
    {"send_message", "send_photo_url", "send_photo_upload",
     "send_animation_url", "send_animation_upload", "send_media_group_url",
     "send_media_group_upload"}

\* C36: the requests of a builder without a reply-to message carry no reply
\* parameters, whichever strategy sends them: text message, single media,
\* media group by reference and media group after download.
C36_NoReplyParameters ==
    builder.message_id = 0 =>
        \A i \in 1..Len(calls) :
            calls[i].op \in ContentOps => calls[i].reply_parameters = << >>

\* C37: when the builder's spoiler flag is set, the item of a single photo
\* and of a single animation that reaches the chat carries the flag, sent by
\* URL or uploaded after the download.
C37_SpoilerOnSingleMedia ==
    builder.spoiler =>
        \A i \in 1..Len(chat) :
            chat[i].kind \in {"photo", "animation"} =>
                chat[i].media[1].has_spoiler

\* ---- the loop over the responses ----

\* the sends of the responses themselves, the fallback messages left out
ResponseAttempts == SelectSeq(attempts, LAMBDA a : ~a.fallback)

\* C31: when send_bot_responses has returned, every response of the list
\* was attempted exactly once and in list order, whichever sends and
\* fallback messages failed; a fallback message is sent only right after
\* the failed send of its response.
C31_EveryResponseAttempted ==
    /\ loopPc = "done" =>
           /\ Len(ResponseAttempts) = Len(responses)
           /\ \A i \in 1..Len(responses) :
                  /\ ResponseAttempts[i].index = i
                  /\ ResponseAttempts[i].kind = responses[i]
    /\ \A j \in 1..Len(attempts) :
           attempts[j].fallback =>
               /\ j > 1
               /\ ~attempts[j - 1].fallback
               /\ ~attempts[j - 1].ok
               /\ attempts[j - 1].index = attempts[j].index

C31_Witness ==
    /\ loopPc = "done"
    /\ Len(responses) = 3
    /\ Len(attempts) = 4
    /\ ~attempts[1].ok
    /\ attempts[2].fallback /\ ~attempts[2].ok
    /\ attempts[3].index = 2
    /\ attempts[4].index = 3

\* ---- the token cache: the retry ----

\* caller c's attempt ends with Err in this step: the refresh token is not
\* set, the request failed, or the body does not hold a token
AttemptFails(c) ==
    /\ \/ cPc[c] = "token_lookup" /\ ~token_valid
       \/ cPc[c] \in {"token_request", "token_body"}
    /\ cPc'[c] \notin {cPc[c], "token_request", "token_body", "token_store_lock"}

\* C32: a call of get_access_token_with_retry makes at most two attempts and
\* issues at most one refresh request in each; when the first attempt fails
\* the call clears the cache and makes the second attempt; it returns an
\* error only when the second attempt failed; and an attempt that finds a
\* valid token in the cache returns without a refresh request.
C32_RetriesOnce ==
    /\ [](\A c \in Callers :
            /\ attempt[c] <= 2
            /\ refreshes[c] <= attempt[c]
            /\ cPc[c] \in {"token_clear_lock", "token_clear"} => attempt[c] = 1)
    /\ [][\A c \in Callers :
            /\ AttemptFails(c) =>
                   IF attempt[c] = 1 THEN cPc'[c] = "token_clear_lock"
                   ELSE attempt[c] = 2 /\ cPc'[c] = "idle"
            /\ (cPc[c] = "token_clear" /\ cPc'[c] # cPc[c]) =>
                   /\ cPc'[c] = "token_lock"
                   /\ attempt'[c] = 2
                   /\ ~token_valid'
            /\ (cPc[c] = "token_lookup" /\ token_valid /\ cPc'[c] # cPc[c]) =>
                   cPc'[c] = "idle"]_vars

\* the second attempt of a call has issued the call's second refresh request
C32_Witness ==
    \E c \in Callers :
        /\ cPc[c] = "token_body"
        /\ attempt[c] = 2
        /\ refreshes[c] = 2

\* C39: a valid token leaves the cache only by expiring: no call of
\* get_access_token_with_retry clears the cache before its retry while the
\* cache holds a valid token, which is then the token another call stored.
C39_ValidTokenKept ==
    [][\A c \in Callers :
          (cPc[c] = "token_clear" /\ cPc'[c] # cPc[c]) => ~token_valid]_vars

====
